---- MODULE Spec2Model ----
(***************************************************************************)
(* Keyword arbitrage prospecting pipeline: the durable task queue          *)
(* (surfer_prospector_queue), the single queue consumer                    *)
(* (surfer_queue_consumer.py) and the TTL-gated arbitrage cache            *)
(* (canonical_categories) it reads and writes.                             *)
(*                                                                         *)
(* The consumer is modelled as one process whose position pc walks         *)
(* through main() and process_queue_item(); every commit to the SQLite     *)
(* database and every outbound call is one step.  The database is shared   *)
(* with the producer (category_normalizer.py), which enqueues the tasks.   *)
(*                                                                         *)
(* The Fetcher and the pool builder of surfer_prospector_module.py, the    *)
(* keyword normalization of scoring_utils.py and the short-term strategy   *)
(* of run_prospecting_async are modelled on their own variables, each      *)
(* under its own specification.                                            *)
(***************************************************************************)
EXTENDS Integers, Sequences, FiniteSets, TLC

\* ------------------------------------------------------------------ bounds
MaxItems  == 2   \* rows ever inserted into surfer_prospector_queue
MaxFaults == 1   \* faults of the environment, in total: sqlite3.Error raised
                 \* by the database, and crashes of the consumer process

MaxBatch  == 2   \* keywords in a batch handed to fetch_keywords_for_batch
MaxSeeds  == 2   \* seed keywords handed to build_keyword_pool
MaxChars  == 4   \* characters of a keyword handed to _normalize_keyword
MaxScored == 5   \* scored keywords the short-term strategy is chosen from
MaxTime   == 3   \* estimated_time takes the values 1..MaxTime
MaxClustered == 4   \* keywords handed to cluster_keywords_by_overlap

\* -------------------------------------------------------- program constants
\* CATEGORY_ARBITRAGE_UPDATE_INTERVAL_DAYS, read from config.json
TTL == 1

\* `from datetime import datetime, timezone`: the name timedelta, used by the
\* freshness comparison, is never bound in surfer_queue_consumer.py.
TimedeltaImported == FALSE

Ids  == 1..MaxItems
Keys == {"plumber/fl-us", "roofer/tx-us"}

\* What a queue row asks for.  "bad_json": seed_keywords or
\* service_radius_cities does not deserialize; "no_seeds": an empty seed list
\* (with cities); "no_cities": an empty service_radius_cities list (with
\* seeds); "full": both non-empty.
Params == {"bad_json", "no_seeds", "no_cities", "full"}

Terminal == {"completed", "failed"}

\* ------------------------------------------------------------ cache entries
\* A row of canonical_categories, reduced to "lastUpdated" and to what
\* "arbitrageData" holds: "scored" (scored keywords and a strategy) or
\* "error_marker" ({"error": ..., "scored_keywords": []}).  The timestamp is
\* kept as the entry's age in days, now - lastUpdated, which is all the
\* freshness test reads; ages of TTL days and more are kept as TTL.  age = -1
\* stands for a json_metadata without "lastUpdated".
NoTs == -1

NoEntry == [present |-> FALSE, age |-> NoTs, arbitrageData |-> "none"]

Entry(age, arb) == [present |-> TRUE, age |-> age, arbitrageData |-> arb]

\* current_utc_timestamp at line 199: an entry written now has age 0.
Now == 0

\* A row carried over from the single-id scheme, without "lastUpdated".
LegacyEntry == Entry(NoTs, "scored")

EmptyCache == [k \in Keys |-> NoEntry]

\* The table canonical_categories (id TEXT PRIMARY KEY, json_metadata TEXT):
\* a set of rows.
Row(k, e) == [id |-> k, json_metadata |-> e]

CachedKeys(db) == {r.id : r \in db}

\* SELECT json_metadata ... WHERE id = k, NoEntry when there is no such row.
Get(db, k) ==
    IF k \in CachedKeys(db)
        THEN (CHOOSE r \in db : r.id = k).json_metadata
        ELSE NoEntry

\* INSERT without a key constraint on id: the new row is added beside the
\* old one.
InsertPlain(db, k, e) == db \cup {Row(k, e)}

\* INSERT OR REPLACE INTO canonical_categories (id, json_metadata): id is
\* the primary key, so the row of that id, if any, is deleted first.
InsertOrReplace(db, k, e) == {r \in db : r.id # k} \cup {Row(k, e)}

VARIABLES
    status,         \* surfer_prospector_queue.status per row ("absent": no row yet)
    created_at,     \* surfer_prospector_queue.created_at per row
    error_message,  \* surfer_prospector_queue.error_message per row
    db_cache,       \* canonical_categories (durable)
    mem_cache,      \* _canonical_categories_cache (module global, in memory)
    pc,             \* position of the consumer process
    cur,            \* task_id being handled (0: none)
    task_data,      \* the columns of row cur as main() read them: key, params
    exc,            \* the exception travelling to the except block ("": none)
    serp_data,      \* result of run_prospecting_async for cur
    city_clusters,  \* city_clusters for cur
    faults,         \* faults of the environment so far
    hist            \* what happened so far in the current call of
                    \* process_queue_item (observer, reset with the locals)

queue_vars == <<status, created_at, error_message, db_cache, mem_cache, pc,
                cur, task_data, exc, serp_data, city_clusters, faults, hist>>

\* The Fetcher (surfer_prospector_module.py): safe_get, throttle,
\* fetch_keywords_for_batch, fetch_customer_domain_data.
VARIABLES
    fpc,                  \* position inside the Fetcher
    caller,               \* who called safe_get: "batch", "single", "domain"
    keywords,             \* the batch: keywords 1..n of the caller's list
    kw,                   \* `for kw in keywords` of the fallback (0: none)
    retry_attempt,        \* parameter of the two fetch functions
    single_retry_attempt, \* local of the fallback loop
    response,             \* what the last GET met ("": none yet)
    single_results,       \* local of the fallback: keywords retrieved
    fresult,              \* keys of the mapping a fetch function returned
    request_counter,      \* _request_counter (module global)
    fobs                  \* observer of the requests (see NoObs)

fetch_vars == <<fpc, caller, keywords, kw, retry_attempt, single_retry_attempt,
                response, single_results, fresult, request_counter, fobs>>

\* build_keyword_pool (surfer_prospector_module.py)
VARIABLES
    ppc,                        \* position inside build_keyword_pool
    seed_keywords,              \* parameter: the seeds, in order
    target_size,                \* parameter
    keywords_to_process_queue,  \* the asyncio.Queue, front first
    processed_keywords,         \* the set of keywords ever queued
    pool_map,                   \* the dict keyword -> payload, in insertion order
    sent_batch,                 \* the batch last passed to the Fetcher (<<>>: none)
    sent_from,                  \* "frontier" or "refetch": who passed it
    missing_payload_keywords,   \* the part of that list not yet re-fetched
    cleaned_map,                \* the returned pool, a dict like pool_map
    min_volume_filter,          \* parameter
    pobs                        \* what the run did so far (history, see NoPoolObs)

pool_vars == <<ppc, seed_keywords, target_size, keywords_to_process_queue,
               processed_keywords, pool_map, sent_batch, sent_from,
               missing_payload_keywords, cleaned_map, min_volume_filter, pobs>>

\* _normalize_keyword (scoring_utils.py)
VARIABLES
    npc,            \* "idle", "called", "once", "twice"
    keyword,        \* the argument
    once,           \* _normalize_keyword(keyword)
    twice           \* _normalize_keyword(once)

norm_vars == <<npc, keyword, once, twice>>

\* The short-term strategy of run_prospecting_async (lines 560-585)
VARIABLES
    spc,                  \* "idle", "scored", "selected", "done"
    scored_keywords,      \* the list built at lines 475-556
    top_4_by_time,        \* line 571
    short_term_strategy   \* lines 561-564, 580-581

strat_vars == <<spc, scored_keywords, top_4_by_time, short_term_strategy>>

\* cluster_keywords_by_overlap (scoring_utils.py)
VARIABLES
    clpc,               \* "idle", "loop", "done"
    cluster_keywords,   \* parameter keywords
    min_common_words,   \* parameter
    clusters,           \* the list of clusters built so far
    used,               \* the set used
    ci                  \* the index i of the outer loop, from 1

cluster_vars == <<clpc, cluster_keywords, min_common_words, clusters, used, ci>>

\* calculate_keyword_arbitrage_score and get_competition_band
\* (scoring_utils.py), called for one competition and then for a greater one
VARIABLES
    scpc,               \* "idle", "input", "scored", "banded"
    volume,             \* parameter volume
    cpc,                \* parameter cpc, in hundredths
    competition,        \* parameter competition, in thousandths
    arbitrage_score,    \* the score returned, a fraction num/den
    competition_band,   \* the band returned (0: none yet)
    lower               \* the call before, with the smaller competition

score_vars == <<scpc, volume, cpc, competition, arbitrage_score,
                competition_band, lower>>

util_vars == <<norm_vars, strat_vars, cluster_vars, score_vars>>

vars == <<queue_vars, fetch_vars, pool_vars, util_vars>>

\* The queue rows keep their status, created_at and error_message in the
\* model; the request columns of a row (category, state, country, the two JSON
\* lists) are written once by the producer and first looked at when main()
\* has selected the row, so they are drawn at that point.
NoTask == [key |-> "plumber/fl-us", params |-> "full"]

\* check: the outcome of the cache check ("": not run yet); seen: the entry it
\* looked up; batch, single, domain: a Fetcher request of that kind was
\* issued; raised: the stage that raised; fault: a database error hit this
\* call; sink: outcome of the POST; wrote: the cache row was committed.
NoHist == [check |-> "", seen |-> NoEntry,
           batch |-> FALSE, single |-> FALSE, domain |-> FALSE,
           raised |-> "", fault |-> FALSE, sink |-> "none", wrote |-> FALSE]

\* category_location_id of the row being handled (lines 100-102)
CurKey == task_data.key

Note(f, v) == [hist EXCEPT ![f] = v]

\* ---------------------------------------------------------------- the cache
\* Reload that loads a key only when the process holds no entry for it yet.
Reload_Once(mem, db) ==
    [k \in Keys |-> IF mem[k].present THEN mem[k] ELSE Get(db, k)]

\* _initialize_canonical_categories_cache: every row of the table is stored
\* under its id; the dict is not cleared first.
Reload(mem, db) ==
    [k \in Keys |-> IF k \in CachedKeys(db) THEN Get(db, k) ELSE mem[k]]

\* The spec's isFresh: now - last_updated < ttlDays.
Fresh(e) == e.present /\ e.age # NoTs /\ e.age < TTL

\* The cache check of process_queue_item (lines 107-122) on the looked-up
\* entry: "hit" (needs_prospecting = False), "miss" (needs_prospecting stays
\* True) or "NameError" (the comparison evaluates timedelta(...)).
\* CacheCheck with timedelta bound and the comparison turned round (the
\* producer's test reads `>`): a fresh entry is recomputed, a stale one kept.
CacheCheck_Inverted(e) ==
    IF ~e.present THEN "miss"
    ELSE IF e.age = NoTs THEN "miss"
    ELSE IF e.age < TTL THEN "miss"
    ELSE "hit"

CacheCheck(e) ==
    IF ~e.present THEN "miss"
    ELSE IF e.age = NoTs THEN "miss"
    ELSE IF ~TimedeltaImported THEN "NameError"
    ELSE IF e.age < TTL THEN "hit"
    ELSE "miss"

\* ------------------------------------------------------------------- Init
\* The consumer starts on a database whose cache table is empty or holds
\* legacy rows; the queue is empty.
\* ------------------------------------------------------------ the Fetcher
\* REQUESTS_PER_WINDOW
REQUESTS_PER_WINDOW == 5

\* `retry_attempt < 3`, `while single_retry_attempt < 3`
RETRY_LIMIT == 3

\* What a GET can meet: a 200 answer carrying the keywords (the domain) asked
\* for, a 200 answer without them (not a dict, or the key missing), an error
\* status, httpx.TimeoutException, httpx.RequestError, any other exception.
Responses == {"200_ok", "200_bad", "422", "404", "500", "502",
              "timeout", "request_error", "exception"}

\* Status code standing for "the exception left safe_get".
Raised == -1

\* safe_get without its last handler (`except Exception`): what is neither a
\* timeout nor a RequestError propagates to the caller.
StatusOf_NoCatchAll(r) ==
    IF r \in {"200_ok", "200_bad"} THEN 200
    ELSE IF r = "422" THEN 422
    ELSE IF r = "404" THEN 404
    ELSE IF r = "500" THEN 500
    ELSE IF r = "502" THEN 502
    ELSE IF r = "timeout" THEN 0
    ELSE IF r = "request_error" THEN 0
    ELSE Raised

\* The status safe_get returns (lines 145-166): r.status_code, and 0 from each
\* of the three except clauses.
StatusOf(r) ==
    IF r \in {"200_ok", "200_bad"} THEN 200
    ELSE IF r = "422" THEN 422
    ELSE IF r = "404" THEN 404
    ELSE IF r = "500" THEN 500
    ELSE IF r = "502" THEN 502
    ELSE IF r = "timeout" THEN 0
    ELSE IF r = "request_error" THEN 0
    ELSE 0

\* wait_time = attempt + 1: a linear backoff.
Backoff_Linear(attempt) == attempt + 1

\* wait_time = 2 ** retry_attempt (lines 205, 229, 273)
Backoff(attempt) == 2 ^ attempt

\* `_request_counter % REQUESTS_PER_WINDOW == 0` read as "more than a window".
WindowReached_Late(c) == REQUESTS_PER_WINDOW > 0 /\ c > REQUESTS_PER_WINDOW

\* REQUESTS_PER_WINDOW > 0 and _request_counter % REQUESTS_PER_WINDOW == 0
WindowReached(c) == REQUESTS_PER_WINDOW > 0 /\ c % REQUESTS_PER_WINDOW = 0

\* Observer of the requests.  waits: the backoff sleeps of the current batch
\* or domain call, in order; gets: requests issued by that call at batch or
\* domain level; attempts: single requests issued per keyword; ok: keywords
\* whose single request was answered 200 with the keyword present;
\* throttled: throttle delays since the last request ("n/a" before the first
\* request); since_pause: requests issued since the last cool-down pause.
NoCallObs == [waits |-> <<>>, gets |-> 0,
              attempts |-> [k \in 1..MaxBatch |-> 0], ok |-> {}]

NoObs == [call |-> NoCallObs, throttled |-> "n/a", since_pause |-> 0]

\* No fetch function is running, the module was just imported.
FetcherIdle ==
    /\ fpc = "idle"
    /\ caller = "none"
    /\ keywords = {}
    /\ kw = 0
    /\ retry_attempt = 0
    /\ single_retry_attempt = 0
    /\ response = ""
    /\ single_results = {}
    /\ fresult = {}
    /\ request_counter = 0
    /\ fobs = NoObs

\* ------------------------------------------------------ the pool builder
MAX_QUERY_PARAM_LENGTH_SOFT == 400

MAX_QUERY_PARAM_LENGTH_HARD == 500

MAX_BATCH_SIZE == 50

\* Normalized keywords the builder may meet.  The two "long keyword" seeds
\* stand for keywords of 239 and 240 characters.
PoolKeywords == {"plumber miami", "long keyword a", "long keyword b"}

\* More seeds than a batch may hold: kw1, kw2, ...
BulkSeeds == [i \in 1..(MAX_BATCH_SIZE + 1) |-> "kw" \o ToString(i)]

\* Keywords the API lists in "similar_keywords".
SimilarKeywords == {"emergency plumber miami", "plumber near me", "plumber miami"}

\* The length of quote_plus(k): letters and digits count 1, a space becomes
\* "+".
QuotedLen(k) ==
    IF k = "long keyword a" THEN 239
    ELSE IF k = "long keyword b" THEN 240
    ELSE Len(k)

RECURSIVE SumQuoted(_)
SumQuoted(items) ==
    IF items = <<>> THEN 0
    ELSE QuotedLen(Head(items)) + 6 + SumQuoted(Tail(items))

\* get_encoded_query_param_length: len(quote_plus(json.dumps(items,
\* separators=(",", ":")))).  "[" and "]" become %5B and %5D, each quote
\* %22, each comma %2C.
get_encoded_query_param_length(items) ==
    IF items = <<>> THEN 6
    ELSE 6 + SumQuoted(items) + 3 * (Len(items) - 1)

\* service_radius_cities after line 294, and `normalized_city in
\* sim_kw_normalized` of line 366 for the keywords above.
normalized_service_radius_cities == {"miami"}

Contains(city, k) ==
    city = "miami" /\ k \in {"plumber miami", "emergency plumber miami"}

is_geographically_relevant(k) ==
    \E city \in normalized_service_radius_cities : Contains(city, k)

\* A value of the dict the Fetcher returns for a keyword.  None stands for
\* an absent field; dict tells a JSON object from any other JSON value;
\* empty is the object {}, which is also the placeholder of lines 302 and
\* 374.
None == -1

Payload(vol, cost, comp) ==
    [dict |-> TRUE, empty |-> FALSE, search_volume |-> vol, cpc |-> cost,
     competition |-> comp]

Placeholder ==
    [dict |-> TRUE, empty |-> TRUE, search_volume |-> None, cpc |-> None,
     competition |-> None]

NotADict ==
    [dict |-> FALSE, empty |-> FALSE, search_volume |-> None, cpc |-> None,
     competition |-> None]

Payloads ==
    {Payload(30, 1, 1), Payload(10, 1, 1), Payload(None, 1, 1),
     Payload(30, None, 1), Payload(30, 1, None), Placeholder, NotADict}

\* `not v` of line 384.
Falsy(v) == v.dict /\ v.empty

\* The dict pool_map as the sequence of its items, in insertion order.
PoolKeys(m) == {m[i].k : i \in 1..Len(m)}

PoolDel(m, k) == SelectSeq(m, LAMBDA it : it.k # k)

PoolSet(m, k, v) ==
    IF k \in PoolKeys(m)
        THEN [i \in 1..Len(m) |-> IF m[i].k = k THEN [k |-> k, v |-> v] ELSE m[i]]
        ELSE Append(m, [k |-> k, v |-> v])

\* History of one run of run_prospecting_async: the keywords in the order
\* they were put into the queue at lines 300 and 372; the batches the
\* expansion loop passed to the Fetcher, concatenated; every keyword passed
\* to the Fetcher; the similar keywords the Fetcher reported; the number of
\* calls of fetch_keywords_for_batch and of fetch_customer_domain_data; what
\* run_prospecting_async returned.
NoPoolObs ==
    [enqueued |-> <<>>, frontier_sent |-> <<>>, requested |-> {},
     similar_seen |-> {}, batch_calls |-> 0, domain_calls |-> 0,
     result |-> "none"]

\* No pool is being built.
PoolIdle ==
    /\ ppc = "idle"
    /\ seed_keywords = <<>>
    /\ target_size = 0
    /\ keywords_to_process_queue = <<>>
    /\ processed_keywords = {}
    /\ pool_map = <<>>
    /\ sent_batch = <<>>
    /\ sent_from = "none"
    /\ missing_payload_keywords = <<>>
    /\ cleaned_map = <<>>
    /\ min_volume_filter = 0
    /\ pobs = NoPoolObs

\* ------------------------------------------------------ _normalize_keyword
\* A value handed to _normalize_keyword: a string, as the sequence of its
\* characters, or a value that is no string.
Str(chars) == [str |-> TRUE, chars |-> chars]

NotAStr == [str |-> FALSE, chars |-> <<>>]

Alphabet == {"A", "a", " ", "\t"}

Whitespace == {" ", "\t"}

Keywords == {Str(c) : c \in UNION {[1..n -> Alphabet] : n \in 0..MaxChars}}
                \cup {NotAStr}

\* str.lower()
Lower(s) == [i \in 1..Len(s) |-> IF s[i] = "A" THEN "a" ELSE s[i]]

\* str.strip(): leading and trailing whitespace removed.
Strip_One(s) ==
    LET l == IF s # <<>> /\ Head(s) \in Whitespace THEN Tail(s) ELSE s
    IN IF l # <<>> /\ l[Len(l)] \in Whitespace THEN SubSeq(l, 1, Len(l) - 1) ELSE l

Strip(s) ==
    LET solid == {i \in 1..Len(s) : s[i] \notin Whitespace}
    IN IF solid = {} THEN <<>>
       ELSE SubSeq(s, CHOOSE i \in solid : \A j \in solid : i <= j,
                      CHOOSE i \in solid : \A j \in solid : i >= j)

\* re.sub(r'\s+', ' ', s): every maximal run of whitespace becomes one space.
Collapse(s) ==
    LET kept == {i \in 1..Len(s) :
                    s[i] \in Whitespace => (i = 1 \/ s[i - 1] \notin Whitespace)}
    IN [n \in 1..Cardinality(kept) |->
          LET i == CHOOSE j \in kept : Cardinality({m \in kept : m <= j}) = n
          IN IF s[i] \in Whitespace THEN " " ELSE s[i]]

\* scoring_utils.py lines 39-47.
_normalize_keyword(k) ==
    IF ~k.str THEN Str(<<>>)
    ELSE Str(Collapse(Strip(Lower(k.chars))))

NormIdle ==
    /\ npc = "idle"
    /\ keyword = NotAStr
    /\ once = NotAStr
    /\ twice = NotAStr

\* ----------------------------------------------------- short-term strategy
\* The values of roi (line 554): low and high.
Rois == {1, 2}

\* An element of scored_keywords, reduced to the fields the strategy reads.
\* keyword is the position in the pool, which makes the elements distinct.
Scored(n, f) ==
    [i \in 1..n |-> [keyword |-> i, estimated_time |-> f[i][1], roi |-> f[i][2]]]

\* sorted(items, key=...), keys being the keys of the items in order:
\* Python's sort is stable, so an item comes before another when its key is
\* smaller, or when the keys are equal and it stands earlier in items.
StableSort(items, keys) ==
    LET n == Len(items)
        rank(i) == Cardinality({j \in 1..n :
                       \/ keys[j] < keys[i]
                       \/ keys[j] = keys[i] /\ j < i}) + 1
    IN [p \in 1..n |-> items[CHOOSE i \in 1..n : rank(i) = p]]

\* key=lambda x: x.get("estimated_time", float('inf')) (line 568)
TimeKey(x) == x.estimated_time

\* key=lambda x: x.get("roi", 0.0), reverse=True (line 575): descending in
\* roi, items of equal roi staying in their order.
RoiKey_Ascending(x) == x.roi

RoiKey(x) == 0 - x.roi

\* time_sorted_keywords[:4] (line 571)
Top4_All(items) == items

Top4(items) == SubSeq(items, 1, IF Len(items) < 4 THEN Len(items) ELSE 4)

\* max([...]) of line 578, for a non-empty list
MaxTimeOf(items) ==
    CHOOSE t \in {items[i].estimated_time : i \in 1..Len(items)} :
        \A i \in 1..Len(items) : items[i].estimated_time <= t

\* Lines 561-564.
NoStrategy == [top_4_clusters |-> <<>>, max_time_to_implement |-> 0]

StratIdle ==
    /\ spc = "idle"
    /\ scored_keywords = <<>>
    /\ top_4_by_time = <<>>
    /\ short_term_strategy = NoStrategy

\* ---------------------------------------------- cluster_keywords_by_overlap
\* Keywords handed to the clustering, and set(kw.lower().split()) of each.
ClusterKeywords ==
    {"plumber miami", "Miami Plumber", "emergency plumber miami",
     "emergency plumber tampa", "roofer tampa"}

Words(key) ==
    IF key \in {"plumber miami", "Miami Plumber"} THEN {"plumber", "miami"}
    ELSE IF key = "emergency plumber miami" THEN {"emergency", "plumber", "miami"}
    ELSE IF key = "emergency plumber tampa" THEN {"emergency", "plumber", "tampa"}
    ELSE {"roofer", "tampa"}

\* len(common_words) of line 246
Overlap_Any(primary, cand) == Cardinality(Words(cand))

Overlap(primary, cand) == Cardinality(Words(primary) \cap Words(cand))

\* Line 247
Enough_Strict(common, min) == common > min

Enough(common, min) == common >= min

\* Lines 241-249 for the primary at index i: the indices of the candidates
\* that are attached, a candidate being skipped when it is in used, which
\* by then also holds the primary and the candidates attached before it.
Attached(kws, i, min, usd) ==
    {j \in (i + 1)..Len(kws) :
        /\ kws[j] \notin usd \cup {kws[i]}
        /\ Enough(Overlap(kws[i], kws[j]), min)
        /\ \A h \in (i + 1)..(j - 1) : kws[h] # kws[j]}

\* cluster["related"], in the order of the input
Related(kws, J) ==
    [n \in 1..Cardinality(J) |->
        kws[CHOOSE j \in J : Cardinality({h \in J : h <= j}) = n]]

\* used after a cluster is closed (lines 239, 249)
MarkUsed_PrimaryOnly(usd, primary, related) == usd \cup {primary}

MarkUsed(usd, primary, related) ==
    usd \cup {primary} \cup {related[n] : n \in 1..Len(related)}

ClusterIdle ==
    /\ clpc = "idle"
    /\ cluster_keywords = <<>>
    /\ min_common_words = 0
    /\ clusters = <<>>
    /\ used = {}
    /\ ci = 1

\* ------------------ calculate_keyword_arbitrage_score, get_competition_band
\* Competition is counted in thousandths and cpc in hundredths, so that the
\* score is the exact fraction num/den of two integers:
\*   volume * (cpc/100) / (competition/1000 + 0.01)
\*     = (volume * cpc * 10) / (competition + 10)
Volumes == {1, 100}

Cpcs == {1, 25}

\* Every hundredth of [0, 1], the thousandths around 0 and 1, and the
\* thousandths between the listed edges of the bands.
Competitions ==
    {10 * n : n \in 0..100} \cup {1, 999}
    \cup {101, 105, 109, 201, 205, 209, 301, 305, 309, 401, 405}

\* Line 55: adjusted_competition = competition + 0.01
adjusted_competition_Raw(c) == c

adjusted_competition(c) == c + 10

\* Lines 56-59: value_score = volume * cpc; value_score / adjusted_competition
calculate_keyword_arbitrage_score(v, c, comp) ==
    [num |-> v * c * 10, den |-> adjusted_competition(comp)]

\* a/b < c/d for positive denominators
Below(x, y) == x.num * y.den < y.num * x.den

\* Lines 185-198, the comparisons with 0.00, 0.10, 0.11, 0.20, ... as written
get_competition_band(comp) ==
    IF 0 <= comp /\ comp <= 100 THEN 1
    ELSE IF 110 <= comp /\ comp <= 200 THEN 2
    ELSE IF 210 <= comp /\ comp <= 300 THEN 3
    ELSE IF 310 <= comp /\ comp <= 400 THEN 4
    ELSE 5

NoScore == [num |-> 0, den |-> 1]

NoCall == [competition |-> 0 - 1, score |-> NoScore, band |-> 0]

ScoreIdle ==
    /\ scpc = "idle"
    /\ volume = 0
    /\ cpc = 0
    /\ competition = 0
    /\ arbitrage_score = NoScore
    /\ competition_band = 0
    /\ lower = NoCall

UtilIdle == NormIdle /\ StratIdle /\ ClusterIdle /\ ScoreIdle

\* The consumer is about to start on an empty queue; the table is empty or
\* holds a row without "lastUpdated" for one key.
Init ==
    /\ FetcherIdle
    /\ PoolIdle
    /\ UtilIdle
    /\ status = [i \in Ids |-> "absent"]
    /\ created_at = [i \in Ids |-> 0]
    /\ error_message = [i \in Ids |-> ""]
    /\ db_cache \in {{}, {Row("plumber/fl-us", LegacyEntry)}}
    /\ mem_cache = EmptyCache
    /\ pc = "init_llm"
    /\ cur = 0
    /\ task_data = NoTask
    /\ exc = ""
    /\ serp_data = "none"
    /\ city_clusters = "none"
    /\ faults = 0
    /\ hist = NoHist

\* ------------------------------------------------------- the database
\* A statement or commit on the SQLite file may raise sqlite3.Error (locked
\* database, I/O error); a failed write leaves the table as it was.
CanFault == faults < MaxFaults

DbError == "sqlite3.Error"

\* ORDER BY created_at ASC LIMIT 1 over the pending rows (line 280): a row
\* with the smallest created_at; rows of the same second tie.
Oldest(i) ==
    /\ status[i] = "pending"
    /\ \A j \in Ids : status[j] = "pending" => created_at[i] <= created_at[j]

\* ------------------------------------------------------------ main()
\* Lines 262-267: the LLM model is configured once, then the loop starts.
InitLLM ==
    /\ pc = "init_llm"
    /\ pc' = "poll"
    /\ UNCHANGED <<status, created_at, error_message, db_cache, mem_cache,
                   cur, exc, serp_data, city_clusters, faults, hist,
                   task_data>>
    /\ UNCHANGED <<fetch_vars, pool_vars, util_vars>>

\* Lines 268-271: initialisation failed, main() returns.
InitLLMFail ==
    /\ pc = "init_llm"
    /\ pc' = "exited"
    /\ UNCHANGED <<status, created_at, error_message, db_cache, mem_cache,
                   cur, exc, serp_data, city_clusters, faults, hist,
                   task_data>>
    /\ UNCHANGED <<fetch_vars, pool_vars, util_vars>>

\* Lines 274-300: one pass of the polling loop up to the call of
\* process_queue_item (a task was found), the sleep (none was found) or the
\* except branch (the SELECT raised).
Poll ==
    /\ pc = "poll"
    /\ \/ /\ \E i \in Ids : Oldest(i) /\ cur' = i
          /\ \E k \in Keys, p \in Params : task_data' = [key |-> k, params |-> p]
          /\ pc' = "mark_processing"
          /\ UNCHANGED faults
       \/ /\ \A i \in Ids : status[i] # "pending"
          /\ pc' = "sleep"
          /\ UNCHANGED <<cur, task_data, faults>>
       \/ /\ CanFault
          /\ faults' = faults + 1
          /\ pc' = "main_except"
          /\ UNCHANGED <<cur, task_data>>
    /\ UNCHANGED <<status, created_at, error_message, db_cache, mem_cache,
                   exc, serp_data, city_clusters, hist>>
    /\ UNCHANGED <<fetch_vars, pool_vars, util_vars>>

\* Line 302: asyncio.sleep(10), then the next pass; the locals of the pass
\* are gone.
Sleep ==
    /\ pc = "sleep"
    /\ pc' = "poll"
    /\ cur' = 0
    /\ task_data' = NoTask
    /\ exc' = ""
    /\ serp_data' = "none"
    /\ city_clusters' = "none"
    /\ hist' = NoHist
    /\ UNCHANGED <<status, created_at, error_message, db_cache, mem_cache,
                   faults>>
    /\ UNCHANGED <<fetch_vars, pool_vars, util_vars>>

\* Lines 304-312: an exception reached the loop; sleep(30), then the next pass.
MainExcept ==
    /\ pc = "main_except"
    /\ pc' = "poll"
    /\ cur' = 0
    /\ task_data' = NoTask
    /\ exc' = ""
    /\ serp_data' = "none"
    /\ city_clusters' = "none"
    /\ hist' = NoHist
    /\ UNCHANGED <<status, created_at, error_message, db_cache, mem_cache,
                   faults>>
    /\ UNCHANGED <<fetch_vars, pool_vars, util_vars>>

\* ------------------------------------------------ process_queue_item()
\* Lines 88-97: connect, then UPDATE ... SET status = 'processing', commit.
\* When connect raises, conn is None: the except block writes nothing and the
\* function returns normally.  When the UPDATE or its commit raises, conn is
\* set and the except block runs.
\* MarkProcessing with the UPDATE left for later: the work starts on a row
\* that is still 'pending'.
MarkProcessing_NoWrite ==
    /\ pc = "mark_processing"
    /\ pc' = "cache_check"
    /\ UNCHANGED <<status, created_at, error_message, db_cache, mem_cache, cur,
                   task_data, exc, serp_data, city_clusters, faults, hist>>
    /\ UNCHANGED <<fetch_vars, pool_vars, util_vars>>

MarkProcessing ==
    /\ pc = "mark_processing"
    /\ \/ /\ status' = [status EXCEPT ![cur] = "processing"]
          /\ pc' = "cache_check"
          /\ UNCHANGED <<exc, faults, hist>>
       \/ /\ CanFault
          /\ faults' = faults + 1
          /\ hist' = Note("fault", TRUE)
          /\ pc' = "sleep"
          /\ UNCHANGED <<status, exc>>
       \/ /\ CanFault
          /\ faults' = faults + 1
          /\ hist' = Note("fault", TRUE)
          /\ exc' = DbError
          /\ pc' = "except"
          /\ UNCHANGED status
    /\ UNCHANGED <<created_at, error_message, db_cache, mem_cache, cur,
                   serp_data, city_clusters, task_data>>
    /\ UNCHANGED <<fetch_vars, pool_vars, util_vars>>

\* Lines 104-129: the in-memory cache is loaded from the table (emptied
\* instead when that raises sqlite3.Error, lines 77-80), the entry of the key
\* is looked up and tested; on a hit the row is marked 'completed' and the
\* function returns.
CheckCache ==
    /\ pc = "cache_check"
    /\ \E lost \in {c \in BOOLEAN : c => CanFault} :
         LET mem == IF lost THEN EmptyCache ELSE Reload(mem_cache, db_cache)
             e == mem[CurKey]
             r == CacheCheck(e)
             h == [hist EXCEPT !.check = r, !.seen = e,
                               !.raised = IF r = "NameError" THEN "cache_check" ELSE @,
                               !.fault = @ \/ lost]
         IN \E dbfails \in {c \in BOOLEAN : c => (CanFault /\ ~lost /\ r = "hit")} :
              /\ mem_cache' = mem
              /\ hist' = [h EXCEPT !.fault = @ \/ dbfails]
              /\ faults' = IF lost \/ dbfails THEN faults + 1 ELSE faults
              /\ status' = IF r = "hit" /\ ~dbfails
                              THEN [status EXCEPT ![cur] = "completed"]
                              ELSE status
              /\ exc' = IF r = "NameError" THEN "NameError"
                        ELSE IF dbfails THEN DbError ELSE exc
              /\ pc' = IF r = "miss" THEN "deserialize"
                       ELSE IF r = "NameError" \/ dbfails THEN "except"
                       ELSE "sleep"
    /\ UNCHANGED <<created_at, error_message, db_cache, cur, serp_data,
                   city_clusters, task_data>>
    /\ UNCHANGED <<fetch_vars, pool_vars, util_vars>>

\* Lines 132-136: json.loads of seed_keywords and service_radius_cities.
Deserialize ==
    /\ pc = "deserialize"
    /\ \/ /\ task_data.params # "bad_json"
          /\ pc' = "prospect"
          /\ UNCHANGED <<exc, hist>>
       \/ /\ task_data.params = "bad_json"
          /\ exc' = "JSONDecodeError"
          /\ hist' = Note("raised", "deserialize")
          /\ pc' = "except"
    /\ UNCHANGED <<status, created_at, error_message, db_cache, mem_cache,
                   cur, serp_data, city_clusters, faults, task_data>>
    /\ UNCHANGED <<fetch_vars, pool_vars, util_vars>>

\* Line 154: run_prospecting_async.  With seeds, build_keyword_pool sends at
\* least one batch request (the seeds' placeholders are fetched) and
\* single-keyword requests when a batch failed; with no seed it sends none.
\* An empty pool ends the run with the error marker {"error": ...,
\* "scored_keywords": []} and without a domain request (lines 465-467);
\* otherwise the domain is requested and the keywords are scored.  What the
\* pool builder or the scoring raises leaves run_prospecting_async.
Prospect ==
    /\ pc = "prospect"
    /\ \/ /\ task_data.params = "no_seeds"
          /\ serp_data' = "error_marker"
          /\ pc' = "cluster"
          /\ UNCHANGED <<exc, hist>>
       \/ /\ task_data.params # "no_seeds"
          /\ \E s \in BOOLEAN :
               LET h == [hist EXCEPT !.batch = TRUE, !.single = s]
               IN \/ /\ serp_data' = "error_marker"
                     /\ hist' = h
                     /\ pc' = "cluster"
                     /\ UNCHANGED exc
                  \/ /\ serp_data' = "scored"
                     /\ hist' = [h EXCEPT !.domain = TRUE]
                     /\ pc' = "cluster"
                     /\ UNCHANGED exc
                  \/ /\ hist' = [h EXCEPT !.raised = "pipeline"]
                     /\ exc' = "PipelineError"
                     /\ pc' = "except"
                     /\ UNCHANGED serp_data
    /\ UNCHANGED <<status, created_at, error_message, db_cache, mem_cache,
                   cur, city_clusters, faults, task_data>>
    /\ UNCHANGED <<fetch_vars, pool_vars, util_vars>>

\* Lines 158-196: city clusters.  The try block runs when the row has cities
\* (both results of run_prospecting_async carry "scored_keywords"); with no
\* scored keyword it has nothing to cluster and city_clusters stays {}.  What
\* it raises (line 171 on a city that is not hashable, the clustering calls)
\* is caught at line 192 and stored as city_clusters = {"error": ...}.
Cluster ==
    /\ pc = "cluster"
    /\ \/ /\ task_data.params = "no_cities"
          /\ city_clusters' = "none"
          /\ UNCHANGED hist
       \/ /\ task_data.params # "no_cities"
          /\ city_clusters' = IF serp_data = "scored" THEN "ok" ELSE "none"
          /\ UNCHANGED hist
       \/ /\ task_data.params # "no_cities"
          /\ city_clusters' = "error"
          /\ hist' = Note("raised", "clustering")
    /\ pc' = "write_cache"
    /\ UNCHANGED <<status, created_at, error_message, db_cache, mem_cache,
                   cur, exc, serp_data, faults, task_data>>
    /\ UNCHANGED <<fetch_vars, pool_vars, util_vars>>

\* WriteCache with the INSERT OR REPLACE moved behind the POST: the sink is
\* tried on a row that was not written.
WriteCache_Deferred ==
    /\ pc = "write_cache"
    /\ pc' = "sink"
    /\ UNCHANGED <<status, created_at, error_message, db_cache, mem_cache, cur,
                   task_data, exc, serp_data, city_clusters, faults, hist>>
    /\ UNCHANGED <<fetch_vars, pool_vars, util_vars>>

\* Lines 198-225: INSERT OR REPLACE of the row of this key, commit.
WriteCache ==
    /\ pc = "write_cache"
    /\ \/ /\ db_cache' = InsertOrReplace(db_cache, CurKey, Entry(Now, serp_data))
          /\ hist' = Note("wrote", TRUE)
          /\ pc' = "sink"
          /\ UNCHANGED <<exc, faults>>
       \/ /\ CanFault
          /\ faults' = faults + 1
          /\ hist' = [hist EXCEPT !.fault = TRUE, !.raised = "cache_write"]
          /\ exc' = DbError
          /\ pc' = "except"
          /\ UNCHANGED db_cache
    /\ UNCHANGED <<status, created_at, error_message, mem_cache, cur,
                   serp_data, city_clusters, task_data>>
    /\ UNCHANGED <<fetch_vars, pool_vars, util_vars>>

\* Lines 227-244: the POST to the sink; a non-success status, an
\* httpx.RequestError and any other exception are logged only.
SinkResults == {"ok", "http_error", "request_error", "exception"}

\* PushSink without the try block: a failed delivery raises into the except
\* block of process_queue_item.
PushSink_Raise ==
    /\ pc = "sink"
    /\ \E r \in SinkResults :
         /\ hist' = Note("sink", IF r = "ok" THEN "ok" ELSE "failed")
         /\ pc' = IF r = "ok" THEN "mark_completed" ELSE "except"
         /\ exc' = IF r = "ok" THEN exc ELSE "SinkError"
    /\ UNCHANGED <<status, created_at, error_message, db_cache, mem_cache, cur,
                   task_data, serp_data, city_clusters, faults>>
    /\ UNCHANGED <<fetch_vars, pool_vars, util_vars>>

PushSink ==
    /\ pc = "sink"
    /\ \E r \in SinkResults :
         hist' = Note("sink", IF r = "ok" THEN "ok" ELSE "failed")
    /\ pc' = "mark_completed"
    /\ UNCHANGED <<status, created_at, error_message, db_cache, mem_cache,
                   cur, exc, serp_data, city_clusters, faults, task_data>>
    /\ UNCHANGED <<fetch_vars, pool_vars, util_vars>>

\* Lines 246-249: UPDATE ... SET status = 'completed', commit.
MarkCompleted ==
    /\ pc = "mark_completed"
    /\ \/ /\ status' = [status EXCEPT ![cur] = "completed"]
          /\ pc' = "sleep"
          /\ UNCHANGED <<exc, faults, hist>>
       \/ /\ CanFault
          /\ faults' = faults + 1
          /\ hist' = Note("fault", TRUE)
          /\ exc' = DbError
          /\ pc' = "except"
          /\ UNCHANGED status
    /\ UNCHANGED <<created_at, error_message, db_cache, mem_cache, cur,
                   serp_data, city_clusters, task_data>>
    /\ UNCHANGED <<fetch_vars, pool_vars, util_vars>>

\* Lines 251-259: the except block.  conn is set here; when the UPDATE to
\* 'failed' raises in turn, the exception leaves process_queue_item and
\* reaches the except branches of main().
Except ==
    /\ pc = "except"
    /\ \/ /\ status' = [status EXCEPT ![cur] = "failed"]
          /\ error_message' = [error_message EXCEPT ![cur] = exc]
          /\ pc' = "sleep"
          /\ UNCHANGED <<faults, hist>>
       \/ /\ CanFault
          /\ faults' = faults + 1
          /\ hist' = Note("fault", TRUE)
          /\ pc' = "main_except"
          /\ UNCHANGED <<status, error_message>>
    /\ UNCHANGED <<created_at, db_cache, mem_cache, cur, exc, serp_data,
                   city_clusters, task_data>>
    /\ UNCHANGED <<fetch_vars, pool_vars, util_vars>>

\* ------------------------------------------------------- the environment
\* The consumer process dies (kill, power loss) and is started again: the
\* module globals are back at their initial values, the database is as
\* committed.
Crash ==
    /\ pc # "exited"
    /\ CanFault
    /\ faults' = faults + 1
    /\ pc' = "init_llm"
    /\ cur' = 0
    /\ task_data' = NoTask
    /\ exc' = ""
    /\ serp_data' = "none"
    /\ city_clusters' = "none"
    /\ mem_cache' = EmptyCache
    /\ hist' = NoHist
    /\ UNCHANGED <<status, created_at, error_message, db_cache>>
    /\ UNCHANGED <<fetch_vars, pool_vars, util_vars>>

\* A day passes: every timestamped entry, in the table and in memory, is a
\* day older.
Older(e) == IF e.present /\ e.age # NoTs /\ e.age < TTL
               THEN [e EXCEPT !.age = @ + 1]
               ELSE e

Tick ==
    /\ \E r \in db_cache : Older(r.json_metadata) # r.json_metadata
    /\ db_cache' = {Row(r.id, Older(r.json_metadata)) : r \in db_cache}
    /\ mem_cache' = [k \in Keys |-> Older(mem_cache[k])]
    /\ UNCHANGED <<status, created_at, error_message, pc, cur, task_data,
                   exc, serp_data, city_clusters, faults, hist>>
    /\ UNCHANGED <<fetch_vars, pool_vars, util_vars>>

\* push_to_surfer_queue of the producer: a new row with the next id, status
\* 'pending' and created_at = CURRENT_TIMESTAMP (column defaults), which is
\* the second of the previous row or a later one.
Enqueue ==
    /\ \E i \in Ids :
         /\ status[i] = "absent"
         /\ \A j \in Ids : j < i => status[j] # "absent"
         /\ status' = [status EXCEPT ![i] = "pending"]
         /\ \E later \in {0, 1} :
              created_at' = [created_at EXCEPT
                               ![i] = IF i = 1 THEN 0 ELSE created_at[i - 1] + later]
    /\ UNCHANGED <<error_message, db_cache, mem_cache, pc, cur, task_data,
                   exc, serp_data, city_clusters, faults, hist>>
    /\ UNCHANGED <<fetch_vars, pool_vars, util_vars>>

\* ------------------------------------------------------------------ Next
Consumer ==
    \/ InitLLM
    \/ Poll
    \/ Sleep
    \/ MainExcept
    \/ MarkProcessing
    \/ CheckCache
    \/ Deserialize
    \/ Prospect
    \/ Cluster
    \/ WriteCache
    \/ PushSink
    \/ MarkCompleted
    \/ Except

Environment ==
    \/ Tick
    \/ Enqueue

Next ==
    \/ Consumer
    \/ Environment
    \/ InitLLMFail
    \/ Crash

Spec == Init /\ [][Next]_vars

\* The producer (category_normalizer.py, lines 552-695) queues the task of a
\* key and then saves the row of that key: lastUpdated is now, arbitrageData
\* is the placeholder {"status": "queued", ...}.  The consumer may have
\* fetched the task by then; the save lands just before its cache check.
ProducerWrite ==
    /\ pc = "cache_check"
    /\ Get(db_cache, CurKey) # Entry(Now, "queued")
    /\ db_cache' = InsertOrReplace(db_cache, CurKey, Entry(Now, "queued"))
    /\ UNCHANGED <<status, created_at, error_message, mem_cache, pc, cur,
                   task_data, exc, serp_data, city_clusters, faults, hist>>
    /\ UNCHANGED <<fetch_vars, pool_vars, util_vars>>

SharedNext ==
    \/ Consumer
    \/ Enqueue
    \/ Crash
    \/ ProducerWrite

\* The consumer, with its restarts, and the producer on the same table,
\* within one day (the passing of days is part of Spec).
SharedSpec == Init /\ [][SharedNext]_vars

\* A consumer that keeps running: it is started, is not killed, and each of
\* its steps is eventually taken (one asyncio task, every await returns);
\* the database raises at most MaxFaults times.
Running ==
    \/ Consumer
    \/ Environment

LiveSpec == Init /\ [][Running]_vars /\ WF_vars(Consumer)

\* ------------------------------------------------- the Fetcher, its steps
\* The queue is left out: no row, empty table, the consumer not started.
QueueIdle ==
    /\ status = [i \in Ids |-> "absent"]
    /\ created_at = [i \in Ids |-> 0]
    /\ error_message = [i \in Ids |-> ""]
    /\ db_cache = {}
    /\ mem_cache = EmptyCache
    /\ pc = "init_llm"
    /\ cur = 0
    /\ task_data = NoTask
    /\ exc = ""
    /\ serp_data = "none"
    /\ city_clusters = "none"
    /\ faults = 0
    /\ hist = NoHist

FetchInit == QueueIdle /\ FetcherIdle /\ PoolIdle /\ UtilIdle

\* fetch_keywords_for_batch(keywords, country) is called (lines 177-190);
\* an empty list returns {} at once (lines 182-184).
fetch_keywords_for_batch_call ==
    /\ fpc = "idle"
    /\ \E n \in 0..MaxBatch :
         /\ keywords' = 1..n
         /\ fpc' = IF n = 0 THEN "returned" ELSE "get"
    /\ caller' = "batch"
    /\ kw' = 0
    /\ retry_attempt' = 0
    /\ single_retry_attempt' = 0
    /\ single_results' = {}
    /\ fresult' = {}
    /\ fobs' = [fobs EXCEPT !.call = NoCallObs]
    /\ UNCHANGED <<response, request_counter>>
    /\ UNCHANGED <<queue_vars, pool_vars, util_vars>>

\* fetch_customer_domain_data(domain, country) is called (lines 247-259).
fetch_customer_domain_data_call ==
    /\ fpc = "idle"
    /\ fpc' = "get"
    /\ caller' = "domain"
    /\ keywords' = {}
    /\ kw' = 0
    /\ retry_attempt' = 0
    /\ single_retry_attempt' = 0
    /\ single_results' = {}
    /\ fresult' = {}
    /\ fobs' = [fobs EXCEPT !.call = NoCallObs]
    /\ UNCHANGED <<response, request_counter>>
    /\ UNCHANGED <<queue_vars, pool_vars, util_vars>>

\* safe_get (lines 129-166): the shared counter is incremented; on a full
\* window the cool-down pause is slept and the counter reset; then the GET is
\* issued and its status returned.
safe_get ==
    /\ fpc = "get"
    /\ \E r \in Responses :
         LET c == request_counter + 1
             pause == WindowReached(c)
             single == caller = "single"
             o == fobs.call
         IN /\ request_counter' = IF pause THEN 0 ELSE c
            /\ response' = r
            /\ fpc' = IF StatusOf(r) = Raised THEN "raised" ELSE "throttle"
            /\ fobs' = [fobs EXCEPT
                   !.throttled = "no",
                   !.since_pause = IF pause THEN 1 ELSE @ + 1,
                   !.call = [o EXCEPT
                       !.gets = IF single THEN @ ELSE @ + 1,
                       !.attempts = IF single THEN [@ EXCEPT ![kw] = @ + 1] ELSE @,
                       !.ok = IF single /\ r = "200_ok" THEN @ \cup {kw} ELSE @]]
    /\ UNCHANGED <<caller, keywords, kw, retry_attempt, single_retry_attempt,
                   single_results, fresult>>
    /\ UNCHANGED <<queue_vars, pool_vars, util_vars>>

\* throttle that sleeps only after a successful request.
throttle_OnSuccess ==
    /\ fpc = "throttle"
    /\ fpc' = "status"
    /\ fobs' = [fobs EXCEPT !.throttled =
                   IF StatusOf(response) # 200 THEN @
                   ELSE IF @ = "no" THEN "once" ELSE "more"]
    /\ UNCHANGED <<caller, keywords, kw, retry_attempt, single_retry_attempt,
                   response, single_results, fresult, request_counter>>
    /\ UNCHANGED <<queue_vars, pool_vars, util_vars>>

\* `await throttle()` after each safe_get (lines 192, 219, 261): one
\* randomized per-call delay.
throttle ==
    /\ fpc = "throttle"
    /\ fpc' = "status"
    /\ fobs' = [fobs EXCEPT !.throttled = IF @ = "no" THEN "once" ELSE "more"]
    /\ UNCHANGED <<caller, keywords, kw, retry_attempt, single_retry_attempt,
                   response, single_results, fresult, request_counter>>
    /\ UNCHANGED <<queue_vars, pool_vars, util_vars>>

\* fetch_keywords_for_batch after its request (lines 194-215): a 200 answer
\* is returned as it is ({} when it is not a dict); 500 and 502 sleep the
\* backoff and issue the same batch again while retry_attempt < 3; every
\* other status, and 500/502 once the retries are used up, starts the
\* fallback with the first keyword.
fetch_keywords_for_batch ==
    /\ fpc = "status"
    /\ caller = "batch"
    /\ \/ /\ StatusOf(response) = 200
          /\ \E d \in SUBSET keywords :
               fresult' = IF response = "200_ok" THEN d ELSE {}
          /\ fpc' = "returned"
          /\ UNCHANGED <<caller, kw, retry_attempt, fobs>>
       \/ /\ StatusOf(response) \in {500, 502}
          /\ retry_attempt < RETRY_LIMIT
          /\ fobs' = [fobs EXCEPT !.call.waits = Append(@, Backoff(retry_attempt))]
          /\ retry_attempt' = retry_attempt + 1
          /\ fpc' = "get"
          /\ UNCHANGED <<caller, kw, fresult>>
       \/ /\ StatusOf(response) # 200
          /\ ~(StatusOf(response) \in {500, 502} /\ retry_attempt < RETRY_LIMIT)
          /\ caller' = "single"
          /\ kw' = 1
          /\ fpc' = "get"
          /\ UNCHANGED <<retry_attempt, fresult, fobs>>
    /\ UNCHANGED <<keywords, single_retry_attempt, response, single_results,
                   request_counter>>
    /\ UNCHANGED <<queue_vars, pool_vars, util_vars>>

\* The fallback loop after one single request (lines 221-243): 200 stores the
\* keyword when the answer holds it and leaves the while loop; 500 and 502
\* sleep the backoff and count an attempt, the loop going on while fewer than
\* 3 were counted; every other status leaves the loop.  Leaving the loop
\* moves to the next keyword, or returns single_results after the last one.
single_keyword_fallback ==
    /\ fpc = "status"
    /\ caller = "single"
    /\ LET st == StatusOf(response)
           again == st \in {500, 502} /\ single_retry_attempt + 1 < RETRY_LIMIT
           got == IF response = "200_ok" THEN single_results \cup {kw}
                                        ELSE single_results
           last == kw = Cardinality(keywords)
       IN /\ single_results' = got
          /\ single_retry_attempt' = IF again THEN single_retry_attempt + 1 ELSE 0
          /\ kw' = IF again \/ last THEN kw ELSE kw + 1
          /\ fpc' = IF again \/ ~last THEN "get" ELSE "returned"
          /\ fresult' = IF again \/ ~last THEN fresult ELSE got
    /\ UNCHANGED <<caller, keywords, retry_attempt, response, request_counter,
                   fobs>>
    /\ UNCHANGED <<queue_vars, pool_vars, util_vars>>

\* fetch_customer_domain_data after its request (lines 263-279): the domain's
\* data on a 200 answer that holds it, {} otherwise; 500 and 502 sleep the
\* backoff and ask again while retry_attempt < 3.
fetch_customer_domain_data ==
    /\ fpc = "status"
    /\ caller = "domain"
    /\ \/ /\ StatusOf(response) \in {500, 502}
          /\ retry_attempt < RETRY_LIMIT
          /\ fobs' = [fobs EXCEPT !.call.waits = Append(@, Backoff(retry_attempt))]
          /\ retry_attempt' = retry_attempt + 1
          /\ fpc' = "get"
          /\ UNCHANGED fresult
       \/ /\ ~(StatusOf(response) \in {500, 502} /\ retry_attempt < RETRY_LIMIT)
          /\ fresult' = IF response = "200_ok" THEN {0} ELSE {}
          /\ fpc' = "returned"
          /\ UNCHANGED <<retry_attempt, fobs>>
    /\ UNCHANGED <<caller, keywords, kw, single_retry_attempt, response,
                   single_results, request_counter>>
    /\ UNCHANGED <<queue_vars, pool_vars, util_vars>>

\* The fetch function has returned (or the exception has left it); the
\* caller goes on and may call the Fetcher again.
fetch_return ==
    /\ fpc \in {"returned", "raised"}
    /\ fpc' = "idle"
    /\ UNCHANGED <<caller, keywords, kw, retry_attempt, single_retry_attempt,
                   response, single_results, fresult, request_counter, fobs>>
    /\ UNCHANGED <<queue_vars, pool_vars, util_vars>>

FetchNext ==
    \/ fetch_keywords_for_batch_call
    \/ fetch_customer_domain_data_call
    \/ safe_get
    \/ throttle
    \/ fetch_keywords_for_batch
    \/ single_keyword_fallback
    \/ fetch_customer_domain_data
    \/ fetch_return

FetchSpec == FetchInit /\ [][FetchNext]_vars

\* ------------------------------------------- build_keyword_pool, its steps
PoolInit == QueueIdle /\ FetcherIdle /\ PoolIdle /\ UtilIdle

\* A seed as a caller may write it, not in normalized form.
RawKeywords == {"Plumber  Miami "}

\* _normalize_keyword (scoring_utils.py, lines 39-47) on the keywords of the
\* pool: lower case, stripped, runs of whitespace collapsed to one space.
\* Every other keyword of the model is in normalized form already.
NormalizedForm_Identity(k) == k

NormalizedForm(k) == IF k = "Plumber  Miami " THEN "plumber miami" ELSE k

SeedLists ==
    UNION {[1..n -> PoolKeywords \cup RawKeywords] : n \in 0..MaxSeeds}
    \cup {BulkSeeds}

ToSet(q) == {q[i] : i \in 1..Len(q)}

\* Lines 296-301: the seeds not seen before, in order.
Unseen(seeds, seen) ==
    LET first == {i \in 1..Len(seeds) :
                    /\ seeds[i] \notin seen
                    /\ \A j \in 1..(i - 1) : seeds[j] # seeds[i]}
    IN [n \in 1..Cardinality(first) |->
          seeds[CHOOSE i \in first : Cardinality({j \in first : j <= i}) = n]]

\* Line 298 for every seed.
NormalizedSeeds(seeds) == [i \in 1..Len(seeds) |-> NormalizedForm(seeds[i])]

\* build_keyword_pool is called (lines 297-302): each seed is normalized,
\* and when new it is queued, marked processed and given the placeholder {}.
build_keyword_pool_call ==
    /\ ppc = "idle"
    /\ \E seeds \in SeedLists, target \in {0, 1, MaxSeeds + 1}, min \in {0, 20} :
         LET new == Unseen(NormalizedSeeds(seeds), {})
         IN /\ seed_keywords' = seeds
            /\ target_size' = target
            /\ min_volume_filter' = min
            /\ keywords_to_process_queue' = new
            /\ processed_keywords' = ToSet(new)
            /\ pool_map' = [i \in 1..Len(new) |-> [k |-> new[i], v |-> Placeholder]]
            /\ pobs' = [NoPoolObs EXCEPT !.enqueued = new]
    /\ ppc' = "expand"
    /\ UNCHANGED <<sent_batch, sent_from, missing_payload_keywords, cleaned_map>>
    /\ UNCHANGED <<queue_vars, fetch_vars, util_vars>>

\* The inner while loop (lines 310-335): keywords are taken from the front of
\* the queue; one that is in processed_keywords is dropped; one that would
\* take the batch over the hard limit is put back at the end of the queue and
\* ends the batch; the batch also ends over the soft limit and at
\* MAX_BATCH_SIZE keywords.
RECURSIVE PackBatch(_, _, _)
PackBatch(q, batch, processed) ==
    IF q = <<>> \/ Len(batch) >= MAX_BATCH_SIZE
        THEN [batch |-> batch, queue |-> q]
    ELSE IF Head(q) \in processed
        THEN PackBatch(Tail(q), batch, processed)
    ELSE LET temp == Append(batch, Head(q))
             temp_length == get_encoded_query_param_length(temp)
         IN IF temp_length > MAX_QUERY_PARAM_LENGTH_HARD
                THEN [batch |-> batch, queue |-> Append(Tail(q), Head(q))]
            ELSE IF temp_length > MAX_QUERY_PARAM_LENGTH_SOFT
                    \/ Len(temp) >= MAX_BATCH_SIZE
                THEN [batch |-> temp, queue |-> Tail(q)]
            ELSE PackBatch(Tail(q), temp, processed)

\* What fetch_keywords_for_batch may return for a batch: a dict over any
\* part of the batch, with any payloads.  For a batch of more than MaxSeeds
\* keywords the answers are cut down to none or all of the keywords, all
\* with the same payload.
FetcherAnswers(batch) ==
    IF Len(batch) <= MaxSeeds
        THEN UNION {[got -> Payloads] : got \in SUBSET ToSet(batch)}
        ELSE {[k \in got |-> v] : got \in {{}, ToSet(batch)}, v \in Payloads}

\* The similar keywords of an answer that may enter the frontier: in the
\* expansion loop those with a service-radius city in them (lines 351-371);
\* the re-fetch pass does not read "similar_keywords" (lines 390-398).
Candidates_Unfiltered(sims, from) == sims

Candidates(sims, from) ==
    IF from = "frontier"
        THEN {x \in {NormalizedForm(y) : y \in sims} : is_geographically_relevant(x)}
    ELSE {}

\* Lines 371-374 for the candidates of one answer: a new one is queued,
\* marked processed and given a placeholder while the pool is below
\* target_size.
RECURSIVE AddSimilar(_, _)
AddSimilar(cands, st) ==
    IF cands = {} \/ Len(st.pool) >= target_size THEN st
    ELSE LET x == CHOOSE y \in cands : TRUE
         IN AddSimilar(cands \ {x},
                IF x \in st.processed THEN st
                ELSE [pool |-> Append(st.pool, [k |-> x, v |-> Placeholder]),
                      queue |-> Append(st.queue, x),
                      processed |-> st.processed \cup {x},
                      enqueued |-> Append(st.enqueued, x)])

\* Lines 345-381 and 390-398 for the keywords of a batch in turn: a keyword
\* of the answer gets its payload, and the candidates among the similar
\* keywords of a dict payload are added; a keyword missing from the answer
\* is deleted from the pool if it is there.
RECURSIVE Absorb(_, _, _, _)
Absorb(batch, pay, cands, st) ==
    IF batch = <<>> THEN st
    ELSE LET k == Head(batch)
             rest == Tail(batch)
         IN IF k \in DOMAIN pay
                THEN LET pool == PoolSet(st.pool, k, pay[k])
                         similar == IF pay[k].dict /\ ~pay[k].empty THEN cands ELSE {}
                     IN IF Len(pool) >= target_size \/ similar = {}
                            THEN Absorb(rest, pay, cands, [st EXCEPT !.pool = pool])
                            ELSE Absorb(rest, pay, cands,
                                        AddSimilar(similar, [st EXCEPT !.pool = pool]))
            ELSE IF k \in PoolKeys(st.pool)
                THEN Absorb(rest, pay, cands, [st EXCEPT !.pool = PoolDel(@, k)])
            ELSE Absorb(rest, pay, cands, st)

\* Line 384: the keys of pool_map whose value is falsy, in order.
Missing(m) ==
    LET falsy == SelectSeq(m, LAMBDA it : Falsy(it.v))
    IN [i \in 1..Len(falsy) |-> falsy[i].k]

\* The history after a call of fetch_keywords_for_batch.
Fetched(obs, batch, pay, sims, from, enq) ==
    [obs EXCEPT !.requested = @ \cup ToSet(batch),
                !.batch_calls = @ + 1,
                !.frontier_sent = IF from = "frontier" THEN @ \o batch ELSE @,
                !.similar_seen = IF \E k \in DOMAIN pay : pay[k].dict /\ ~pay[k].empty
                                     THEN @ \cup sims ELSE @,
                !.enqueued = enq]

\* One pass of the outer while loop (lines 307-381), or its end, after which
\* missing_payload_keywords is computed (line 384).
frontier_expansion ==
    /\ ppc = "expand"
    /\ LET p == PackBatch(keywords_to_process_queue, <<>>, processed_keywords)
           over == keywords_to_process_queue = <<>> \/ Len(pool_map) >= target_size
       IN IF over \/ p.batch = <<>>
             THEN /\ keywords_to_process_queue' =
                        IF over THEN keywords_to_process_queue ELSE p.queue
                  /\ missing_payload_keywords' = Missing(pool_map)
                  /\ ppc' = "refetch"
                  /\ UNCHANGED <<processed_keywords, pool_map, sent_batch,
                                 sent_from, pobs>>
             ELSE \E pay \in FetcherAnswers(p.batch), sims \in SUBSET SimilarKeywords :
                      LET st == Absorb(p.batch, pay, Candidates(sims, "frontier"),
                                       [pool |-> pool_map, queue |-> p.queue,
                                        processed |-> processed_keywords,
                                        enqueued |-> pobs.enqueued])
                      IN /\ sent_batch' = p.batch
                         /\ sent_from' = "frontier"
                         /\ pool_map' = st.pool
                         /\ keywords_to_process_queue' = st.queue
                         /\ processed_keywords' = st.processed
                         /\ pobs' = Fetched(pobs, p.batch, pay, sims, "frontier",
                                            st.enqueued)
                         /\ ppc' = "expand"
                         /\ UNCHANGED missing_payload_keywords
    /\ UNCHANGED <<seed_keywords, target_size, cleaned_map, min_volume_filter>>
    /\ UNCHANGED <<queue_vars, fetch_vars, util_vars>>

\* missing_payload_keywords[i : i + MAX_BATCH_SIZE]
Slice_Uncut(q) == q

Slice(q) == SubSeq(q, 1, IF Len(q) < MAX_BATCH_SIZE THEN Len(q) ELSE MAX_BATCH_SIZE)

\* The batch of one pass of the re-fetch loop (lines 387-388).
RefetchBatch(q) == Slice(q)

\* What range(0, len(missing_payload_keywords), MAX_BATCH_SIZE) leaves for
\* the passes after this batch.
Remaining_Stuck(q, batch) == q

Remaining(q, batch) == SubSeq(q, Len(batch) + 1, Len(q))

\* One pass of the re-fetch loop (lines 387-398): the slice is passed to the
\* Fetcher; a keyword of the answer gets its payload, the others leave the
\* pool.
refetch_missing ==
    /\ ppc = "refetch"
    /\ missing_payload_keywords # <<>>
    /\ LET batch == RefetchBatch(missing_payload_keywords)
       IN \E pay \in FetcherAnswers(batch), sims \in SUBSET SimilarKeywords :
              LET st == Absorb(batch, pay, Candidates(sims, "refetch"),
                               [pool |-> pool_map,
                                queue |-> keywords_to_process_queue,
                                processed |-> processed_keywords,
                                enqueued |-> pobs.enqueued])
              IN /\ sent_batch' = batch
                 /\ sent_from' = "refetch"
                 /\ pool_map' = st.pool
                 /\ keywords_to_process_queue' = st.queue
                 /\ processed_keywords' = st.processed
                 /\ pobs' = Fetched(pobs, batch, pay, sims, "refetch", st.enqueued)
                 /\ missing_payload_keywords' =
                       Remaining(missing_payload_keywords, batch)
    /\ UNCHANGED <<ppc, seed_keywords, target_size, cleaned_map, min_volume_filter>>
    /\ UNCHANGED <<queue_vars, fetch_vars, util_vars>>

\* Line 403 and line 410: what the final filter keeps.
PassesFilter_VolumeOnly(v, min) ==
    v.dict /\ v.search_volume # None /\ v.search_volume >= min

PassesFilter(v, min) ==
    /\ v.dict
    /\ v.search_volume # None /\ v.search_volume >= min
    /\ v.cpc # None
    /\ v.competition # None

\* Lines 400-417: the final filter; the pool is returned.
final_filter ==
    /\ ppc = "refetch"
    /\ missing_payload_keywords = <<>>
    /\ cleaned_map' = SelectSeq(pool_map,
                                LAMBDA it : PassesFilter(it.v, min_volume_filter))
    /\ ppc' = "done"
    /\ UNCHANGED <<seed_keywords, target_size, keywords_to_process_queue,
                   processed_keywords, pool_map, sent_batch, sent_from,
                   missing_payload_keywords, min_volume_filter, pobs>>
    /\ UNCHANGED <<queue_vars, fetch_vars, util_vars>>

\* `not keyword_pool` of line 465.
EmptyPool_Ignored(m) == FALSE

EmptyPool(m) == m = <<>>

\* run_prospecting_async from line 465 on: an empty pool ends the run with
\* the error marker; otherwise the domain metrics are fetched (line 470) and
\* the keywords scored.
run_prospecting_async ==
    /\ ppc = "done"
    /\ pobs' = IF EmptyPool(cleaned_map)
                  THEN [pobs EXCEPT !.result = "error_marker"]
                  ELSE [pobs EXCEPT !.domain_calls = @ + 1, !.result = "scored"]
    /\ ppc' = "returned"
    /\ UNCHANGED <<seed_keywords, target_size, keywords_to_process_queue,
                   processed_keywords, pool_map, sent_batch, sent_from,
                   missing_payload_keywords, cleaned_map, min_volume_filter>>
    /\ UNCHANGED <<queue_vars, fetch_vars, util_vars>>

PoolNext ==
    \/ build_keyword_pool_call
    \/ frontier_expansion
    \/ refetch_missing
    \/ final_filter
    \/ run_prospecting_async

PoolSpec == PoolInit /\ [][PoolNext]_vars

\* ------------------------------------------- _normalize_keyword, applied
NormInit ==
    /\ QueueIdle /\ FetcherIdle /\ PoolIdle /\ StratIdle /\ ClusterIdle /\ ScoreIdle
    /\ npc = "called"
    /\ keyword \in Keywords
    /\ once = NotAStr
    /\ twice = NotAStr

\* _normalize_keyword(keyword)
normalize_once ==
    /\ npc = "called"
    /\ once' = _normalize_keyword(keyword)
    /\ npc' = "once"
    /\ UNCHANGED <<keyword, twice>>
    /\ UNCHANGED <<queue_vars, fetch_vars, pool_vars, strat_vars, cluster_vars, score_vars>>

\* _normalize_keyword applied to its own result
normalize_twice ==
    /\ npc = "once"
    /\ twice' = _normalize_keyword(once)
    /\ npc' = "twice"
    /\ UNCHANGED <<keyword, once>>
    /\ UNCHANGED <<queue_vars, fetch_vars, pool_vars, strat_vars, cluster_vars, score_vars>>

NormNext ==
    \/ normalize_once
    \/ normalize_twice

NormSpec == NormInit /\ [][NormNext]_vars

\* ------------------------------------- the short-term strategy, its steps
StratInit ==
    /\ QueueIdle /\ FetcherIdle /\ PoolIdle /\ NormIdle /\ ClusterIdle /\ ScoreIdle
    /\ spc = "scored"
    /\ \E n \in 0..MaxScored :
          \E f \in [1..n -> (1..MaxTime) \X Rois] : scored_keywords = Scored(n, f)
    /\ top_4_by_time = <<>>
    /\ short_term_strategy = NoStrategy

\* Lines 566-571: the keywords sorted by estimated_time, the first four.
select_by_time ==
    /\ spc = "scored"
    /\ top_4_by_time' = IF scored_keywords = <<>> THEN <<>>
                        ELSE Top4(StableSort(scored_keywords,
                                 [i \in 1..Len(scored_keywords) |->
                                    TimeKey(scored_keywords[i])]))
    /\ spc' = "selected"
    /\ UNCHANGED <<scored_keywords, short_term_strategy>>
    /\ UNCHANGED <<queue_vars, fetch_vars, pool_vars, norm_vars, cluster_vars, score_vars>>

\* Lines 573-585: the selection sorted by roi, descending, and its largest
\* estimated_time.
sort_by_roi ==
    /\ spc = "selected"
    /\ short_term_strategy' =
          IF top_4_by_time = <<>> THEN short_term_strategy
          ELSE LET top_4_by_roi ==
                       StableSort(top_4_by_time,
                                  [i \in 1..Len(top_4_by_time) |->
                                     RoiKey(top_4_by_time[i])])
               IN [top_4_clusters |-> top_4_by_roi,
                   max_time_to_implement |-> MaxTimeOf(top_4_by_roi)]
    /\ spc' = "done"
    /\ UNCHANGED <<scored_keywords, top_4_by_time>>
    /\ UNCHANGED <<queue_vars, fetch_vars, pool_vars, norm_vars, cluster_vars, score_vars>>

StratNext ==
    \/ select_by_time
    \/ sort_by_roi

StratSpec == StratInit /\ [][StratNext]_vars

\* ------------------------------- cluster_keywords_by_overlap, its steps
ClusterInit ==
    /\ QueueIdle /\ FetcherIdle /\ PoolIdle /\ NormIdle /\ StratIdle /\ ScoreIdle
    /\ clpc = "loop"
    /\ cluster_keywords \in UNION {[1..n -> ClusterKeywords] : n \in 0..MaxClustered}
    /\ min_common_words \in {0, 1, 2, 3}
    /\ clusters = <<>>
    /\ used = {}
    /\ ci = 1

\* One pass of the outer loop (lines 233-251): a keyword in used is skipped;
\* otherwise it opens a cluster, the later keywords are scanned and the
\* cluster is appended.
cluster_pass ==
    /\ clpc = "loop"
    /\ ci <= Len(cluster_keywords)
    /\ LET primary == cluster_keywords[ci]
           related == Related(cluster_keywords,
                              Attached(cluster_keywords, ci, min_common_words, used))
       IN IF primary \in used
             THEN UNCHANGED <<clusters, used>>
             ELSE /\ clusters' = Append(clusters, [primary |-> primary, related |-> related])
                  /\ used' = MarkUsed(used, primary, related)
    /\ ci' = ci + 1
    /\ UNCHANGED <<clpc, cluster_keywords, min_common_words>>
    /\ UNCHANGED <<queue_vars, fetch_vars, pool_vars, norm_vars, strat_vars, score_vars>>

\* Line 253: return clusters.
cluster_return ==
    /\ clpc = "loop"
    /\ ci > Len(cluster_keywords)
    /\ clpc' = "done"
    /\ UNCHANGED <<cluster_keywords, min_common_words, clusters, used, ci>>
    /\ UNCHANGED <<queue_vars, fetch_vars, pool_vars, norm_vars, strat_vars, score_vars>>

ClusterNext ==
    \/ cluster_pass
    \/ cluster_return

ClusterSpec == ClusterInit /\ [][ClusterNext]_vars

\* ---------- calculate_keyword_arbitrage_score, get_competition_band, calls
ScoreInit ==
    /\ QueueIdle /\ FetcherIdle /\ PoolIdle /\ NormIdle /\ StratIdle /\ ClusterIdle
    /\ scpc = "input"
    /\ volume \in Volumes
    /\ cpc \in Cpcs
    /\ competition \in Competitions
    /\ arbitrage_score = NoScore
    /\ competition_band = 0
    /\ lower = NoCall

score_call ==
    /\ scpc = "input"
    /\ arbitrage_score' = calculate_keyword_arbitrage_score(volume, cpc, competition)
    /\ scpc' = "scored"
    /\ UNCHANGED <<volume, cpc, competition, competition_band, lower>>
    /\ UNCHANGED <<queue_vars, fetch_vars, pool_vars, norm_vars, strat_vars, cluster_vars>>

band_call ==
    /\ scpc = "scored"
    /\ competition_band' = get_competition_band(competition)
    /\ scpc' = "banded"
    /\ UNCHANGED <<volume, cpc, competition, arbitrage_score, lower>>
    /\ UNCHANGED <<queue_vars, fetch_vars, pool_vars, norm_vars, strat_vars, cluster_vars>>

\* The same keyword with a greater competition is scored next.
greater_competition ==
    /\ scpc = "banded"
    /\ lower = NoCall
    /\ \E c \in Competitions :
          /\ c > competition
          /\ competition' = c
    /\ lower' = [competition |-> competition, score |-> arbitrage_score,
                 band |-> competition_band]
    /\ scpc' = "input"
    /\ UNCHANGED <<volume, cpc, arbitrage_score, competition_band>>
    /\ UNCHANGED <<queue_vars, fetch_vars, pool_vars, norm_vars, strat_vars, cluster_vars>>

ScoreNext ==
    \/ score_call
    \/ band_call
    \/ greater_competition

ScoreSpec == ScoreInit /\ [][ScoreNext]_vars

\* ---------------------------------------------------------------- claims
\* The call of process_queue_item for row cur has returned normally.
Returned == pc = "sleep" /\ cur # 0

\* The steps of process_queue_item after the 'processing' write.
WorkPcs == {"cache_check", "deserialize", "prospect", "cluster", "write_cache",
            "sink", "mark_completed"}

\* C1: a row's status changes only along pending -> processing -> completed
\* or pending -> processing -> failed (a new row starts 'pending'): never
\* backward, never from pending straight to a terminal status, never out of
\* a terminal status; and the consumer selects only pending rows.
C1_StatusOrder ==
    [][/\ \A i \in Ids :
            status'[i] # status[i] =>
                <<status[i], status'[i]>> \in
                    {<<"absent", "pending">>, <<"pending", "processing">>,
                     <<"processing", "completed">>, <<"processing", "failed">>}
       /\ (cur' # cur /\ cur' # 0) => status[cur'] = "pending"]_vars

\* C2: whenever the consumer is past the 'processing' write the row is
\* 'processing'; a step that reloads the cache, looks an entry up, issues a
\* Fetcher request or writes the cache is taken on a 'processing' row; and a
\* crash between the selection and the write leaves the row 'pending'.
C2_ProcessingFirst ==
    /\ [](pc \in WorkPcs => status[cur] = "processing")
    /\ [][(/\ pc' # pc
           /\ pc' # "init_llm"
           /\ \/ mem_cache' # mem_cache
              \/ db_cache' # db_cache
              \/ hist'.check # "" /\ hist.check = ""
              \/ hist'.batch /\ ~hist.batch
              \/ hist'.wrote /\ ~hist.wrote)
          => (cur # 0 /\ status[cur] = "processing")]_vars
    /\ [][(pc = "mark_processing" /\ pc' = "init_llm")
          => status'[cur] = "pending"]_vars

\* C2, its case: the pipeline ran and the cache row was written, on a row
\* that was 'processing' throughout.
C2_Witness ==
    pc = "sink" /\ hist.batch /\ hist.wrote /\ status[cur] = "processing"

\* C3: a row whose cache check looked up a fresh entry ends 'completed' and
\* the consumer leaves the cache alone (no database error in the call).
C3_FreshHitCompletes ==
    (/\ pc \in {"sleep", "main_except"}
     /\ cur # 0
     /\ Fresh(hist.seen)
     /\ ~hist.fault)
    => (status[cur] = "completed" /\ ~hist.wrote)

\* C4: once the cache check has looked up a fresh entry, the call issues no
\* Fetcher request: no batch, no single-keyword and no domain request.
C4_FreshNoFetch ==
    Fresh(hist.seen) => (~hist.batch /\ ~hist.single /\ ~hist.domain)

\* C4, its case: the call for a row with a fresh entry is over.
C4_Witness ==
    Returned /\ hist.check # "" /\ Fresh(hist.seen)

\* C5: a row whose cache check found no entry, or an entry at least TTL old,
\* and whose parameters and pipeline raise nothing, gets the pipeline run and
\* the entry of its key written with lastUpdated = now, and ends 'completed';
\* and a check that looks up an entry younger than the TTL finds it fresh.
C5_MissRecomputes ==
    /\ (/\ Returned
        /\ hist.check # ""
        /\ ~hist.seen.present \/ (hist.seen.age # NoTs /\ hist.seen.age >= TTL)
        /\ hist.raised \notin {"deserialize", "pipeline", "cache_write"}
        /\ ~hist.fault)
       => (status[cur] = "completed" /\ hist.wrote)
    /\ (hist.check # "" /\ Fresh(hist.seen)) => hist.check = "hit"

\* C6: an entry without lastUpdated, or whose arbitrage data is only the
\* error marker, is treated as not fresh: the check ends in a miss and the
\* pipeline is recomputed.
C6_IncompleteIsNotFresh ==
    (/\ hist.check # ""
     /\ hist.seen.present
     /\ hist.seen.age = NoTs \/ hist.seen.arbitrageData = "error_marker")
    => hist.check = "miss"

\* C7: a call in which the deserialization, the pipeline, the clustering or
\* the cache write raised ends with the row 'failed' and error_message set
\* (the except block's own write succeeding).
C7_RaisedMeansFailed ==
    (Returned /\ hist.raised \in {"deserialize", "pipeline", "clustering", "cache_write"})
    => (status[cur] = "failed" /\ error_message[cur] # "")

\* C8: every row that is ever 'pending' eventually is 'completed' or 'failed'.
C8_EveryPendingFinishes ==
    \A i \in Ids : [](status[i] = "pending" => <>(status[i] \in Terminal))

\* C9: a call whose delivery to the sink failed (and that met no database
\* error) ends with the row 'completed' and the entry of its key as written.
C9_SinkFailureNotFatal ==
    (Returned /\ hist.sink = "failed" /\ ~hist.fault)
    => /\ status[cur] = "completed"
       /\ Get(db_cache, CurKey).present
       /\ Get(db_cache, CurKey).age # NoTs
       /\ Get(db_cache, CurKey).arbitrageData = serp_data

\* C9, its case: the delivery failed and the call is over.
C9_Witness ==
    Returned /\ hist.sink = "failed" /\ hist.wrote /\ status[cur] = "completed"

\* C10: the consumer writes a cache row only when the pool was not empty and
\* the clustering did not raise.
C10_WriteOnlyAfterSuccess ==
    hist.wrote => (serp_data = "scored" /\ city_clusters # "error")

\* C11: the table holds at most one row per key, and no step removes a key:
\* the set of cached keys only grows.
C11_OneEntryPerKey ==
    /\ [](\A k \in Keys : Cardinality({r \in db_cache : r.id = k}) <= 1)
    /\ [][CachedKeys(db_cache) \subseteq CachedKeys(db_cache')]_vars

\* C11, its case: a refresh has just written the row of a key that had a row.
C11_Witness ==
    /\ pc = "sink"
    /\ hist.wrote
    /\ hist.seen.present
    /\ Cardinality({r \in db_cache : r.id = CurKey}) = 1

\* A consumer that is started again after every crash (a supervisor runs
\* `python surfer_queue_consumer.py` anew) and whose steps are eventually
\* taken.
Restarting ==
    \/ Consumer
    \/ Environment
    \/ Crash

RestartSpec == Init /\ [][Restarting]_vars /\ WF_vars(Consumer)

\* C12: a row that is 'pending' or 'processing' when the consumer starts
\* again after a crash eventually is 'completed' or 'failed'.
C12_CrashRecovery ==
    \A i \in Ids :
        []((pc = "init_llm" /\ status[i] \in {"pending", "processing"})
           => <>(status[i] \in Terminal))

\* C13: the row that is moved to 'processing' is the one enqueued first among
\* the pending rows (ids are handed out in the order of the inserts).
C13_Fifo ==
    [][\A i \in Ids :
          (status[i] = "pending" /\ status'[i] = "processing")
          => \A j \in Ids : j < i => status[j] # "pending"]_vars

\* C14: at most one row is 'processing' at any moment.
C14_OneProcessing ==
    Cardinality({i \in Ids : status[i] = "processing"}) <= 1

\* C15: the backoff sleeps of a batch call, and of a domain call, are 1, 2, 4
\* in that order; the call issues at most 4 requests at its own level (the
\* first attempt and 3 retries); and a 500 or 502 answer to one of the first
\* three is followed by the same request again.
C15_RetrySchedule ==
    /\ [](/\ Len(fobs.call.waits) <= 3
          /\ \A i \in 1..Len(fobs.call.waits) : fobs.call.waits[i] = <<1, 2, 4>>[i]
          /\ fobs.call.gets <= 4
          /\ fobs.call.gets \in {Len(fobs.call.waits), Len(fobs.call.waits) + 1})
    /\ [][(/\ fpc = "status"
           /\ caller \in {"batch", "domain"}
           /\ response \in {"500", "502"}
           /\ fobs.call.gets <= 3)
          => (/\ fpc' = "get"
              /\ caller' = caller
              /\ keywords' = keywords
              /\ fobs'.call.waits = Append(fobs.call.waits, 2 ^ (fobs.call.gets - 1)))]_vars

\* C15, its case: the third retry of a batch has been issued after sleeps of
\* 1, 2 and 4 seconds.
C15_Witness ==
    /\ caller = "batch"
    /\ fpc = "throttle"
    /\ fobs.call.waits = <<1, 2, 4>>
    /\ fobs.call.gets = 4

\* C16: a batch answered with a status other than 200, 500 and 502 is not
\* sent again: the fallback starts and the call issues no further batch
\* request; the fallback issues at most 3 requests per keyword; the mapping
\* it returns holds exactly the keywords whose single request was answered 200
\* with the keyword present; and no outcome of a request makes the call raise.
C16_FallbackMapping ==
    /\ [](/\ fpc # "raised"
          /\ \A k \in 1..MaxBatch : fobs.call.attempts[k] <= 3
          /\ (fpc = "returned" /\ caller = "single")
                => /\ fresult = fobs.call.ok
                   /\ \A k \in keywords : fobs.call.attempts[k] >= 1)
    /\ [][(/\ fpc = "status"
           /\ caller = "batch"
           /\ response \notin {"200_ok", "200_bad", "500", "502"})
          => (caller' = "single" /\ kw' = 1 /\ keywords' = keywords)]_vars
    /\ [][(caller = "single" /\ fpc' # "idle" /\ fpc # "idle")
          => (caller' = "single" /\ fobs'.call.gets = fobs.call.gets)]_vars

\* C16, its case: a fallback over two keywords has returned one of them, the
\* other having used its 3 attempts.
C16_Witness ==
    /\ fpc = "returned"
    /\ caller = "single"
    /\ fresult # {}
    /\ \E k \in keywords : k \notin fresult /\ fobs.call.attempts[k] = 3

\* C17: a request that timed out is issued again (after a backoff sleep) as
\* long as attempts are left, like one answered 500 or 502: the batch while
\* retry_attempt < 3, the single request while fewer than 3 were made.
C17_TimeoutRetried ==
    [][(/\ fpc = "status"
        /\ response = "timeout"
        /\ \/ caller = "batch" /\ retry_attempt < 3
           \/ caller = "single" /\ single_retry_attempt + 1 < 3)
       => (/\ fpc' = "get"
           /\ caller' = caller
           /\ kw' = kw
           /\ \/ retry_attempt' = retry_attempt + 1
              \/ single_retry_attempt' = single_retry_attempt + 1)]_vars

\* C18: between a request and the next one, and between the last request of
\* a call and its return, exactly one throttle delay is slept.
C18_ThrottleAfterRequest ==
    fpc \in {"get", "returned", "idle"} => fobs.throttled \in {"n/a", "once"}

\* C18, its case: a request that timed out was followed by its throttle
\* delay and the next request is about to be issued.
C18_Witness ==
    fpc = "get" /\ response = "timeout" /\ fobs.throttled = "once"

\* C19: the shared counter is in 0..4 between requests, and at most 5
\* requests are issued without a cool-down pause between them.
C19_WindowPause ==
    /\ request_counter \in 0..4
    /\ fobs.since_pause <= 5

\* C19, its case: a domain request is the 5th request since the last pause, the
\* earlier ones of the window being keyword requests.
C19_Witness ==
    /\ caller = "domain"
    /\ fpc = "throttle"
    /\ fobs.since_pause = 5
    /\ request_counter = 4

\* C20: every batch passed to the Fetcher, by the frontier loop or by the
\* re-fetch pass, holds one keyword or has an encoded length below the hard
\* limit of 500.
C20_BatchUnderHardLimit ==
    sent_batch # <<>>
    => \/ Len(sent_batch) = 1
       \/ get_encoded_query_param_length(sent_batch) < 500

\* build_keyword_pool has returned.
PoolBuilt == ppc \in {"done", "returned"}

\* C21: once the packing loop has emptied the frontier, the batches it sent,
\* concatenated in the order they were sent, are the keywords in the order
\* they were enqueued: none dropped, none reordered.
C21_PackingKeepsOrder ==
    (ppc \in {"refetch", "done", "returned"} /\ keywords_to_process_queue = <<>>)
    => pobs.frontier_sent = pobs.enqueued

\* C22: every batch passed to the Fetcher is non-empty and holds at most
\* MAX_BATCH_SIZE keywords, and a batch of the expansion loop without its
\* last keyword has an encoded length of at most the soft limit.
C22_BatchShape ==
    sent_from # "none"
    => /\ Len(sent_batch) >= 1
       /\ Len(sent_batch) <= MAX_BATCH_SIZE
       /\ sent_from = "frontier"
          => get_encoded_query_param_length(SubSeq(sent_batch, 1, Len(sent_batch) - 1))
                <= MAX_QUERY_PARAM_LENGTH_SOFT

\* C22, its case: more keywords are missing than a batch may hold; the batch
\* sent is full and keywords remain for the next one.
C22_Witness ==
    /\ sent_from = "refetch"
    /\ Len(sent_batch) = MAX_BATCH_SIZE
    /\ missing_payload_keywords # <<>>

\* C23: breadth-first expansion: when the pool stayed below target_size, every
\* similar keyword the Fetcher reported that contains a service-radius city
\* has itself been requested from the Fetcher by the time the pool is
\* returned.
C23_BreadthFirst ==
    (PoolBuilt /\ Cardinality(processed_keywords) < target_size)
    => \A x \in pobs.similar_seen :
          is_geographically_relevant(x) => x \in pobs.requested

\* C24: the returned pool has at most target_size entries.
C24_PoolWithinTarget ==
    PoolBuilt => Len(cleaned_map) <= target_size

\* C25: every entry of the returned pool is a record with search_volume of
\* at least min_volume_filter and with cpc and competition present; no
\* placeholder is returned.
C25_ReturnedRecordsPassFilter ==
    \A i \in 1..Len(cleaned_map) :
        LET v == cleaned_map[i].v
        IN /\ v # Placeholder
           /\ v.dict
           /\ v.search_volume # None
           /\ v.search_volume >= min_volume_filter
           /\ v.cpc # None
           /\ v.competition # None

\* C25, its case: the pool is returned with a record that passes, after the
\* filter dropped a record with a field missing.
C25_Witness ==
    /\ PoolBuilt
    /\ cleaned_map # <<>>
    /\ \E i \in 1..Len(pool_map) :
          /\ pool_map[i].v.dict
          /\ pool_map[i].v.search_volume = 30
          /\ pool_map[i].v.cpc = None \/ pool_map[i].v.competition = None

\* C26: a keyword that is not a seed and contains no service-radius city is
\* never enqueued, never requested from the Fetcher and never in the
\* returned pool.
C26_IrrelevantNeverEnters ==
    \A x \in PoolKeywords \cup SimilarKeywords :
        (ppc # "idle" /\ x \notin ToSet(NormalizedSeeds(seed_keywords))
                      /\ ~is_geographically_relevant(x))
        => /\ x \notin ToSet(pobs.enqueued)
           /\ x \notin ToSet(keywords_to_process_queue)
           /\ x \notin pobs.requested
           /\ x \notin PoolKeys(pool_map)
           /\ x \notin PoolKeys(cleaned_map)

\* C26, its case: the Fetcher reported "plumber near me", which is no seed
\* and names no city, as a similar keyword while the pool was below
\* target_size, and a non-empty pool was returned.
C26_Witness ==
    /\ ppc = "returned"
    /\ "plumber near me" \in pobs.similar_seen
    /\ Len(pool_map) < target_size
    /\ cleaned_map # <<>>

\* C27: with an empty seed list no keyword request and no domain-metrics
\* request is made, the pool returned is empty and run_prospecting_async
\* returns the error marker.
C27_EmptySeedsNoRequests ==
    (ppc # "idle" /\ seed_keywords = <<>>)
    => /\ pobs.batch_calls = 0
       /\ pobs.requested = {}
       /\ pobs.domain_calls = 0
       /\ PoolBuilt => cleaned_map = <<>>
       /\ ppc = "returned" => pobs.result = "error_marker"

\* C27, its case: run_prospecting_async has returned for an empty seed list.
C27_Witness ==
    /\ ppc = "returned"
    /\ seed_keywords = <<>>
    /\ target_size > 0

\* C28: normalization is idempotent: normalizing a normalized keyword
\* changes nothing.
C28_NormalizeIdempotent ==
    (npc = "twice" /\ keyword.str) => twice = once

\* C28, its case: a keyword with an upper-case letter, leading whitespace
\* and a whitespace run inside has been normalized twice.
C28_Witness ==
    /\ npc = "twice"
    /\ keyword.str
    /\ Len(keyword.chars) = MaxChars
    /\ keyword.chars[1] \in Whitespace
    /\ \E i \in 1..Len(keyword.chars) : keyword.chars[i] = "A"
    /\ Len(once.chars) = 2

\* The m-th smallest estimated_time of a list, m = min(4, n), counted with
\* repetitions.
FourthSmallest(items) ==
    LET n == Len(items)
        m == IF n < 4 THEN n ELSE 4
    IN CHOOSE t \in {items[i].estimated_time : i \in 1..n} :
          /\ Cardinality({i \in 1..n : items[i].estimated_time < t}) < m
          /\ Cardinality({i \in 1..n : items[i].estimated_time <= t}) >= m

Selected == {short_term_strategy.top_4_clusters[i] :
                i \in 1..Len(short_term_strategy.top_4_clusters)}

\* C29: for a non-empty list of n scored keywords the strategy holds exactly
\* min(4, n) keywords, none slower than the 4th-smallest estimated_time of
\* the list, and max_time_to_implement is the largest estimated_time among
\* them.
C29_FastestFour ==
    (spc = "done" /\ scored_keywords # <<>>)
    => LET top == short_term_strategy.top_4_clusters
           n == Len(scored_keywords)
       IN /\ Len(top) = (IF n < 4 THEN n ELSE 4)
          /\ Cardinality(Selected) = Len(top)
          /\ Selected \subseteq {scored_keywords[i] : i \in 1..n}
          /\ \A x \in Selected :
                x.estimated_time <= FourthSmallest(scored_keywords)
          /\ \E x \in Selected :
                x.estimated_time = short_term_strategy.max_time_to_implement
          /\ \A x \in Selected :
                x.estimated_time <= short_term_strategy.max_time_to_implement

\* C29, its case: more than four keywords were scored, one of them slower
\* than the 4th-smallest estimated_time, and the strategy is built.
C29_Witness ==
    /\ spc = "done"
    /\ Len(scored_keywords) > 4
    /\ \E i \in 1..Len(scored_keywords) :
          scored_keywords[i].estimated_time > FourthSmallest(scored_keywords)
    /\ short_term_strategy.max_time_to_implement > 1

\* C30: the selected keywords are listed by descending roi; a keyword
\* outside the min(4, n) fastest is not selected, whatever its roi; selected
\* keywords of equal roi are listed by ascending estimated_time.
C30_RoiOrderWithinSelection ==
    spc = "done"
    => LET top == short_term_strategy.top_4_clusters
       IN /\ \A i, j \in 1..Len(top) :
                i < j => /\ top[i].roi >= top[j].roi
                         /\ top[i].roi = top[j].roi
                            => top[i].estimated_time <= top[j].estimated_time
          /\ Selected = {top_4_by_time[i] : i \in 1..Len(top_4_by_time)}
          /\ \A i \in 1..Len(scored_keywords) :
                scored_keywords[i] \notin Selected
                => \A x \in Selected :
                      x.estimated_time <= scored_keywords[i].estimated_time

\* C30, its case: a keyword left out has the highest roi of all, above that
\* of a selected one; the selected keywords differ in roi, and two of equal
\* roi differ in estimated_time.
C30_Witness ==
    /\ spc = "done"
    /\ \E i \in 1..Len(scored_keywords) :
          /\ scored_keywords[i] \notin Selected
          /\ \A x \in Selected : x.roi <= scored_keywords[i].roi
          /\ \E x \in Selected : x.roi < scored_keywords[i].roi
    /\ \E x, y \in Selected :
          x.roi = y.roi /\ x.estimated_time < y.estimated_time
    /\ \E x, y \in Selected : x.roi # y.roi

\* The places of a keyword in the returned clusters: <<c, 0>> as the primary
\* of cluster c, <<c, n>> as its n-th related member.
Places(key) ==
    {pl \in (1..Len(clusters)) \X (0..MaxClustered) :
        IF pl[2] = 0
           THEN clusters[pl[1]].primary = key
           ELSE /\ pl[2] <= Len(clusters[pl[1]].related)
                /\ clusters[pl[1]].related[pl[2]] = key}

\* The first index of a keyword in the input.
FirstIndex(key) ==
    CHOOSE i \in 1..Len(cluster_keywords) :
        /\ cluster_keywords[i] = key
        /\ \A h \in 1..(i - 1) : cluster_keywords[h] # key

\* C31: every distinct input keyword is in exactly one place of the returned
\* clusters, and the clusters hold nothing else.
C31_EachKeywordOnce ==
    clpc = "done"
    => \A key \in ClusterKeywords :
          Cardinality(Places(key)) =
             (IF \E i \in 1..Len(cluster_keywords) : cluster_keywords[i] = key
                 THEN 1 ELSE 0)

\* C31, its case: an input with a repeated keyword gave two clusters or more,
\* one of them with a related member.
C31_Witness ==
    /\ clpc = "done"
    /\ \E i, j \in 1..Len(cluster_keywords) :
          i < j /\ cluster_keywords[i] = cluster_keywords[j]
    /\ Len(clusters) >= 2
    /\ \E c \in 1..Len(clusters) : clusters[c].related # <<>>

\* C32: every related member shares at least min_common_words tokens with
\* the primary of its cluster and stands after it in the input.
C32_MembersOverlapPrimary ==
    clpc = "done"
    => \A c \in 1..Len(clusters) :
          \A n \in 1..Len(clusters[c].related) :
             LET m == clusters[c].related[n]
                 pr == clusters[c].primary
             IN /\ Cardinality(Words(pr) \cap Words(m)) >= min_common_words
                /\ FirstIndex(pr) < FirstIndex(m)

\* C32, its case: "emergency plumber tampa" shares two tokens with the member
\* "emergency plumber miami" of the cluster of "plumber miami" and one with
\* the primary; it is not in that cluster.
C32_Witness ==
    /\ clpc = "done"
    /\ min_common_words = 2
    /\ \E c \in 1..Len(clusters) :
          /\ clusters[c].primary = "plumber miami"
          /\ clusters[c].related = <<"emergency plumber miami">>
    /\ \E c \in 1..Len(clusters) : clusters[c].primary = "emergency plumber tampa"

\* C39: no two primaries of the returned clusters share min_common_words
\* tokens or more.
C39_PrimariesApart ==
    clpc = "done"
    => \A c, d \in 1..Len(clusters) :
          c # d => Cardinality(Words(clusters[c].primary)
                                 \cap Words(clusters[d].primary)) < min_common_words

\* C39, its case: two primaries share a token, fewer than min_common_words,
\* and a keyword that overlaps the first primary enough was attached to it.
C39_Witness ==
    /\ clpc = "done"
    /\ min_common_words = 2
    /\ Len(clusters) >= 2
    /\ clusters[1].related # <<>>
    /\ Words(clusters[1].primary) \cap Words(clusters[2].primary) # {}

\* C34: for positive volume and cpc the score is defined at every competition
\* of [0, 1], 0 included, and a greater competition gives a strictly smaller
\* score.
C34_ScoreStrictlyDecreasing ==
    scpc \in {"scored", "banded"}
    => /\ arbitrage_score.den > 0
       /\ lower # NoCall => Below(arbitrage_score, lower.score)

\* C34, its case: the keyword was scored at competition 0 and then at a
\* greater competition.
C34_Witness ==
    /\ scpc = "scored"
    /\ lower # NoCall
    /\ lower.competition = 0
    /\ competition = 1

\* C35: a greater competition never gives a smaller band.
C35_BandNonDecreasing ==
    (scpc = "banded" /\ lower # NoCall) => lower.band <= competition_band

\* C36: the POST to the sink is tried only once the row of the key is
\* committed in this call and while the queue row is not yet 'completed'; the
\* 'completed' write of the miss path comes after both.
C36_WriteThenSinkThenCompleted ==
    /\ pc = "write_cache" => (~hist.wrote /\ hist.sink = "none")
    /\ pc = "sink"
       => /\ hist.wrote /\ Get(db_cache, CurKey).present
          /\ hist.sink = "none"
          /\ status[cur] # "completed"
    /\ pc = "mark_completed"
       => /\ hist.wrote /\ hist.sink # "none"
          /\ status[cur] # "completed"
    /\ (Returned /\ hist.check = "miss" /\ status[cur] = "completed")
       => /\ hist.wrote /\ Get(db_cache, CurKey).present
          /\ hist.sink # "none"

\* C36, its case: a miss ended with the row 'completed'.
C36_Witness ==
    /\ Returned
    /\ hist.check = "miss"
    /\ status[cur] = "completed"
    /\ hist.sink = "ok"

\* C37: a call that ends with the row 'failed' has not written the cache.
C37_FailedLeavesCache ==
    (Returned /\ status[cur] = "failed") => ~hist.wrote

\* C33: the entry that the cache check looks up is the entry of the key in
\* the table at that moment; when the reload failed, the in-memory cache is
\* empty and the check is a miss.
C33_CheckedEntryIsDurable ==
    [][(hist.check = "" /\ hist'.check # "")
       => \/ hist'.seen = Get(db_cache, CurKey)
          \/ /\ faults' = faults + 1
             /\ mem_cache' = EmptyCache
             /\ hist'.seen = NoEntry
             /\ hist'.check = "miss"]_vars

\* C33, its case: the check has looked up an entry that the producer wrote
\* after the consumer had loaded and written its own.
C33_Witness ==
    /\ hist.check # ""
    /\ hist.seen = Entry(Now, "queued")
    /\ \E i \in Ids : status[i] = "completed"

\* The number of times a keyword stands in a sequence of keywords.
Count(q, key) == Cardinality({i \in 1..Len(q) : q[i] = key})

\* C38: every key of the pool map, every entry of the frontier and of the
\* visited set is in normalized form, no key is twice in the pool map, and
\* right after the seeding each seed, normalized, has one pool entry and one
\* frontier entry.
C38_KeysNormalized ==
    /\ \A key \in RawKeywords :
          /\ key \notin PoolKeys(pool_map)
          /\ key \notin ToSet(keywords_to_process_queue)
          /\ key \notin processed_keywords
          /\ key \notin ToSet(pobs.enqueued)
    /\ \A i, j \in 1..Len(pool_map) : pool_map[i].k = pool_map[j].k => i = j
    /\ (ppc = "expand" /\ sent_from = "none")
       => \A n \in 1..Len(seed_keywords) :
             LET key == NormalizedForm(seed_keywords[n])
             IN /\ Cardinality({i \in 1..Len(pool_map) : pool_map[i].k = key}) = 1
                /\ Count(keywords_to_process_queue, key) = 1

\* C38, its case: two seeds that differ in case and spacing only were seeded.
C38_Witness ==
    /\ ppc = "expand"
    /\ seed_keywords = <<"Plumber  Miami ", "plumber miami">>
    /\ Len(pool_map) = 1
    /\ keywords_to_process_queue = <<"plumber miami">>

\* Every keyword the model can queue.
AllKeywords == PoolKeywords \cup SimilarKeywords \cup ToSet(BulkSeeds)

\* A natural number that every step of build_keyword_pool makes smaller: in
\* the outer loop each keyword not yet visited counts twice and each queued
\* keyword once, above what the re-fetch pass can need; in the re-fetch pass
\* the keywords still to fetch.
Variant ==
    IF ppc = "expand"
        THEN 2 * Cardinality(AllKeywords \ processed_keywords)
             + Len(keywords_to_process_queue) + Len(pool_map) + 2
    ELSE IF ppc = "refetch" THEN Len(missing_payload_keywords) + 1
    ELSE 0

\* C40: build_keyword_pool terminates: while it runs a step is always
\* possible and every step makes the variant smaller; no keyword is enqueued
\* twice; a pass of the outer loop that does not leave the loop has sent a
\* non-empty batch.
C40_PoolBuilderTerminates ==
    /\ [](ppc \in {"expand", "refetch"}
          => ENABLED (frontier_expansion \/ refetch_missing \/ final_filter))
    /\ [][(ppc \in {"expand", "refetch"}) => (Variant' < Variant)]_vars
    /\ [](\A key \in ToSet(pobs.enqueued) : Count(pobs.enqueued, key) = 1)
    /\ [][(ppc = "expand" /\ ppc' = "expand")
          => (pobs'.batch_calls = pobs.batch_calls + 1 /\ sent_batch' # <<>>)]_vars

\* C40, its case: the pool was returned after more than one batch had been
\* sent.
C40_Witness ==
    /\ ppc = "done"
    /\ pobs.batch_calls >= 2
    /\ Len(seed_keywords) > MAX_BATCH_SIZE

====
